---------------------------- MODULE Spec2Model ----------------------------
(***************************************************************************)
(* A model of the Cellular Automata Art Studio component (src/main.js):    *)
(* the grid of cells, the rule and trail configuration, the step engine    *)
(* (the web worker's onmessage handler and the main-thread fallback of     *)
(* computeNextGeneration), the animation loop that requests steps, and the *)
(* canvas and button handlers that edit the grid and the rules.            *)
(*                                                                         *)
(* A cell is a record [state, age, changed].  A grid is a function from    *)
(* row numbers 0..rows-1 to functions from column numbers 0..cols-1 to     *)
(* cells, indexed grid[y][x] as in the source.                             *)
(***************************************************************************)
EXTENDS Integers, Sequences, FiniteSets, TLC

VARIABLES
    gridSize,     \* useState gridSize: [rows, cols]
    grid,         \* useState grid
    rules,        \* useState rules
    colorScheme,  \* useState colorScheme: the fields the engine reads
    isRunning,    \* useState isRunning
    speed,        \* useState speed: the delay of the animation loop's timeout, in ms
    generation,   \* useState generation
    isDrawing,    \* useState isDrawing
    drawMode,     \* useState drawMode
    isPanning,    \* useState isPanning
    hasWorker,    \* workerRef.current is set (window.Worker exists)
    timerArmed,   \* timeoutRef.current holds a pending timeout of the animation loop
    toWorker,     \* messages posted to the worker, not yet handled
    fromWorker,   \* messages posted by the worker, not yet handled
    downloads,    \* the pattern files exportCurrentPattern has offered for download
    savedRulesets,\* useState savedRulesets: the entries [name, rules, colorScheme]
    reads,        \* the files importPattern has given to a FileReader whose onload has
                  \* not run: [pattern, live, grid]; live: the grid its applyPattern
                  \* closed over is still the current one, else grid holds it
    lastEvent,    \* history: the last handler that ran: [op, y, x, thrown, arg]
                  \* (thrown: the exception it ended with, "none" if it returned)
    pre,          \* history: the grid just before the last handler ran
    lastStep,     \* history: the request and the changed-cell list of the last step applied
    stepLog,      \* history: every step applied so far: its request, the grid it read as
                  \* the step left it, its new grid and changed-cell list
    hist,         \* history: the grids of the run of steps since the last other grid change
    gesture,      \* history: the canvas events of the click gesture under way, from its
                  \* mousedown on: [op, y, x, pan, grid], grid the grid the event found
    ops           \* history: number of user operations so far

vars == <<gridSize, grid, rules, colorScheme, isRunning, speed, generation, isDrawing,
          drawMode, isPanning, hasWorker, timerArmed, toWorker,
          fromWorker, downloads, savedRulesets, reads, lastEvent, pre, lastStep, stepLog,
          hist, gesture, ops>>

---------------------------------------------------------------------------
(* Bounds of the model.  The program's grid is 100 x 100 (src/main.js:6);  *)
(* the model checks grids of Rows x Cols cells.                            *)

Rows == 3
Cols == 3
\* Live cells of an input grid of the step specification.
MaxLive == 2
\* Largest cell state of an input grid of the step specification.
MaxInitState == 3
\* Steps of the step specification.
StepGen == 2
\* Steps the animation loop takes in the application specification.
MaxGen == 2
\* User operations (clicks, buttons, setting changes) of the application
\* specification.
MaxOps == 2
\* Rows and columns of the grid of the pattern specification, the length
\* of the one-row matrices it imports, and the steps it takes.
PatternRows == 6
PatternCols == 7
ImportLen == 3
PatternGen == 6
\* A run with rule changes: the number of rule changes.
RunOps == 1
\* Canvas edits: the number of mouse events, and the age of the cells they
\* find.
EditEvents == 2
EditAge == 2
\* The wrapped neighbourhood: grids of 1 .. TorusMax rows and columns, and
\* the steps taken on each.
TorusMax == 4
TorusGen == 1
\* randomFill: the grid it fills, and the age of the cells it finds.
FillRows == 2
FillCols == 2
FillAge == 2

---------------------------------------------------------------------------
(* JavaScript values.  A cell's state is a number, NaN (0 / 0 in the birth *)
(* branch) or null (NaN after JSON.stringify / JSON.parse).  The model     *)
(* encodes the two non-numbers as integers outside every numeric range it  *)
(* uses and gives the operators below their JavaScript meaning.            *)

NaN == 0 - 999
Null == 0 - 998

IsNum(v) == v # NaN /\ v # Null

\* v > 0 in JavaScript: false for NaN and for null (null converts to 0).
Gt0(v) == IsNum(v) /\ v > 0

\* The number a comparison or an arithmetic operator converts v to: null
\* converts to 0.
ToNum(v) == IF v = Null THEN 0 ELSE v

\* a >= b and a <= b in JavaScript: false when either side is NaN.
JsGe(a, b) == a # NaN /\ b # NaN /\ ToNum(a) >= ToNum(b)
JsLe(a, b) == a # NaN /\ b # NaN /\ ToNum(a) <= ToNum(b)

\* a % b in JavaScript for integers: NaN when b is 0 or either side is NaN;
\* otherwise the remainder has the sign of the dividend a.
JsRem(a, b) ==
    IF a = NaN \/ b = NaN \/ ToNum(b) = 0 THEN NaN
    ELSE LET m == IF ToNum(b) < 0 THEN 0 - ToNum(b) ELSE ToNum(b)
         IN  IF ToNum(a) >= 0 THEN ToNum(a) % m ELSE 0 - ((0 - ToNum(a)) % m)

\* Math.min(a, b) and Math.max(a, b): NaN if either argument is NaN.
JsMin(a, b) == IF a = NaN \/ b = NaN THEN NaN ELSE IF a < b THEN a ELSE b
JsMax(a, b) == IF a = NaN \/ b = NaN THEN NaN ELSE IF a > b THEN a ELSE b

\* A division that truncates where Math.round rounds (C6 tells them apart).
JsRoundDivTruncating(stateSum, neighbors) ==
    IF neighbors = 0 THEN NaN ELSE stateSum \div neighbors

\* Math.round(stateSum / neighbors) for stateSum >= 0, neighbors >= 0:
\* 0 / 0 is NaN; otherwise the nearest integer, a tie rounding up.
JsRoundDiv(stateSum, neighbors) ==
    IF neighbors = 0 THEN NaN
    ELSE (2 * stateSum + neighbors) \div (2 * neighbors)

\* The value JSON.parse(JSON.stringify(v)) gives for a cell state: NaN is
\* written as null.
JsonValue(v) == IF v = NaN THEN Null ELSE v

JsonCell(c) == [state |-> JsonValue(c.state), age |-> c.age, changed |-> c.changed]

RowIdx(size) == 0 .. (size.rows - 1)
ColIdx(size) == 0 .. (size.cols - 1)

\* JSON.parse(JSON.stringify(grid))
JsonCopy(g, size) ==
    [y \in RowIdx(size) |-> [x \in ColIdx(size) |-> JsonCell(g[y][x])]]

\* initializeGrid's cell
DeadCell == [state |-> 0, age |-> 0, changed |-> FALSE]

EmptyGrid(size) == [y \in RowIdx(size) |-> [x \in ColIdx(size) |-> DeadCell]]

---------------------------------------------------------------------------
(* The step engine.                                                        *)

\* The Moore directions without [1, 1] (C3 tells them apart).
DirectionsMissingDiagonal ==
    << <<-1, -1>>, <<-1, 0>>, <<-1, 1>>, <<0, -1>>, <<0, 1>>, <<1, -1>>, <<1, 0>> >>

\* The directions arrays of the neighbour loop.
MooreDirections ==
    << <<-1, -1>>, <<-1, 0>>, <<-1, 1>>, <<0, -1>>, <<0, 1>>, <<1, -1>>, <<1, 0>>, <<1, 1>> >>

VonNeumannDirections == << <<-1, 0>>, <<0, -1>>, <<0, 1>>, <<1, 0>> >>

Directions(neighborhood) ==
    IF neighborhood = "moore" THEN MooreDirections ELSE VonNeumannDirections

\* A neighbour loop without the bounds test of the non-wrapping case (C10
\* tells them apart).
NeighbourCellNoSkip(y, x, d, wrapping, size) ==
    LET ny == y + d[1]
        nx == x + d[2]
    IN  IF wrapping
        THEN << (ny + size.rows) % size.rows, (nx + size.cols) % size.cols >>
        ELSE << ny, nx >>

\* A wrap that takes the column modulo the number of rows (C23 tells them
\* apart).
NeighbourCellSquareWrap(y, x, d, wrapping, size) ==
    LET ny == y + d[1]
        nx == x + d[2]
    IN  IF wrapping
        THEN << (ny + size.rows) % size.rows, (nx + size.rows) % size.rows >>
        ELSE IF ny < 0 \/ ny >= size.rows \/ nx < 0 \/ nx >= size.cols
             THEN << >>
             ELSE << ny, nx >>

\* The cell the neighbour loop indexes for direction d of cell (y, x), or
\* <<>> when the loop skips the direction (continue).
NeighbourCell(y, x, d, wrapping, size) ==
    LET ny == y + d[1]
        nx == x + d[2]
    IN  IF wrapping
        THEN << (ny + size.rows) % size.rows, (nx + size.cols) % size.cols >>
        ELSE IF ny < 0 \/ ny >= size.rows \/ nx < 0 \/ nx >= size.cols
             THEN << >>
             ELSE << ny, nx >>

\* The cells the neighbour loop reads for cell (y, x), in loop order.
RECURSIVE NeighbourCellsFrom(_, _, _, _, _, _)
NeighbourCellsFrom(k, y, x, dirs, wrapping, size) ==
    IF k > Len(dirs) THEN << >>
    ELSE LET c == NeighbourCell(y, x, dirs[k], wrapping, size)
             rest == NeighbourCellsFrom(k + 1, y, x, dirs, wrapping, size)
         IN  IF c = << >> THEN rest ELSE << c >> \o rest

NeighbourCells(y, x, neighborhood, wrapping, size) ==
    NeighbourCellsFrom(1, y, x, Directions(neighborhood), wrapping, size)

InGrid(c, size) == c[1] \in RowIdx(size) /\ c[2] \in ColIdx(size)

\* grid[ny][nx].state.  The loop indexes only cells inside the grid; the
\* operator is total so that this is checked rather than assumed.
StateAt(g, c, size) == IF InGrid(c, size) THEN g[c[1]][c[2]].state ELSE NaN

\* neighbors and stateSum after the loop over the directions.
RECURSIVE CountFrom(_, _, _, _)
CountFrom(k, g, cells, size) ==
    IF k > Len(cells) THEN [neighbors |-> 0, stateSum |-> 0]
    ELSE LET rest == CountFrom(k + 1, g, cells, size)
             s == StateAt(g, cells[k], size)
         IN  IF Gt0(s)
             THEN [neighbors |-> rest.neighbors + 1, stateSum |-> rest.stateSum + s]
             ELSE rest

CountNeighbors(g, y, x, r, size) ==
    CountFrom(1, g, NeighbourCells(y, x, r.neighborhood, r.wrapping, size), size)



\* A minimum that always takes its first argument (C24 tells them apart).
Min2First(a, b) == a

Min2(a, b) == IF a < b THEN a ELSE b

\* A survive test that puts the two limits in order first (C27 tells them
\* apart).
InSurviveRangeOrdered(n, r) ==
    \/ n >= r.surviveMin /\ n <= r.surviveMax
    \/ n >= r.surviveMax /\ n <= r.surviveMin

\* A birth test without the upper limit (C26 tells them apart).
InBirthRangeNoMax(n, r) == n >= r.birthMin

\* A trail that ends when the age reaches trailLength (C25 tells them
\* apart).
TrailOverInclusive(newAge, cs) == newAge >= cs.trailLength

\* newAge > trailLength
TrailOver(newAge, cs) == newAge > cs.trailLength

\* A survive test that excludes surviveMax (C4 tells them apart).
InSurviveRangeExclusiveMax(n, r) == n >= r.surviveMin /\ n < r.surviveMax

\* neighbors >= surviveMin && neighbors <= surviveMax
InSurviveRange(n, r) == JsGe(n, r.surviveMin) /\ JsLe(n, r.surviveMax)

\* A birth test without birthMin (C8 tells them apart).
InBirthRangeNoMin(n, r) == n <= r.birthMax

\* neighbors >= birthMin && neighbors <= birthMax
InBirthRange(n, r) == JsGe(n, r.birthMin) /\ JsLe(n, r.birthMax)

\* The birth branch's newState.
BirthState(stateSum, neighbors, r) ==
    IF r.states > 1
    THEN JsMax(1, JsMin(JsRoundDiv(stateSum, neighbors), r.states))
    ELSE 1

\* Rules whose death branch clears the state and lets the age run on (C36
\* tells them apart).
WorkerCellRuleAgeing(cell, neighbors, stateSum, r, cs) ==
    IF Gt0(cell.state)
    THEN IF InSurviveRange(neighbors, r)
         THEN LET nextState == Min2(cell.state + 1, r.states)
                  stateChanged == r.states > 1 /\ nextState # cell.state
              IN  [newState |-> IF stateChanged THEN nextState ELSE cell.state,
                   newAge |-> cell.age + 1,
                   cellChanged |-> stateChanged \/ (cell.age # cell.age + 1)]
         ELSE IF cs.trailEffect /\ ~TrailOver(cell.age + 1, cs)
              THEN [newState |-> cell.state, newAge |-> cell.age + 1,
                    cellChanged |-> TRUE]
              ELSE [newState |-> 0, newAge |-> cell.age + 1, cellChanged |-> TRUE]
    ELSE IF InBirthRange(neighbors, r)
         THEN [newState |-> BirthState(stateSum, neighbors, r), newAge |-> 0,
               cellChanged |-> TRUE]
         ELSE [newState |-> cell.state, newAge |-> cell.age, cellChanged |-> FALSE]

\* "Apply rules" of the worker for one cell: newState, newAge, cellChanged.
WorkerCellRule(cell, neighbors, stateSum, r, cs) ==
    IF Gt0(cell.state)
    THEN IF InSurviveRange(neighbors, r)
         THEN LET nextState == Min2(cell.state + 1, r.states)
                  stateChanged == r.states > 1 /\ nextState # cell.state
              IN  [newState |-> IF stateChanged THEN nextState ELSE cell.state,
                   newAge |-> cell.age + 1,
                   cellChanged |-> stateChanged \/ (cell.age # cell.age + 1)]
         ELSE IF cs.trailEffect
              THEN IF TrailOver(cell.age + 1, cs)
                   THEN [newState |-> 0, newAge |-> 0, cellChanged |-> TRUE]
                   ELSE [newState |-> cell.state, newAge |-> cell.age + 1,
                         cellChanged |-> TRUE]
              ELSE [newState |-> 0, newAge |-> 0, cellChanged |-> TRUE]
    ELSE IF InBirthRange(neighbors, r)
         THEN [newState |-> BirthState(stateSum, neighbors, r), newAge |-> 0,
               cellChanged |-> TRUE]
         ELSE [newState |-> cell.state, newAge |-> cell.age, cellChanged |-> FALSE]

\* Loops that read the cells they have already written, as an update in
\* place would (C1 tells them apart).
RECURSIVE WorkerLoopInPlace(_, _, _, _, _, _, _)
WorkerLoopInPlace(i, g, newGrid, changedCells, r, size, cs) ==
    IF i >= size.rows * size.cols
    THEN [grid |-> newGrid, newGrid |-> newGrid, changedCells |-> changedCells]
    ELSE LET y == i \div size.cols
             x == i % size.cols
             cell == newGrid[y][x]
             n == CountNeighbors(newGrid, y, x, r, size)
             res == WorkerCellRule(cell, n.neighbors, n.stateSum, r, cs)
         IN  IF res.cellChanged
             THEN WorkerLoopInPlace(i + 1, g,
                      [newGrid EXCEPT ![y][x] = [state |-> res.newState,
                                                 age |-> res.newAge,
                                                 changed |-> TRUE]],
                      Append(changedCells, [x |-> x, y |-> y]), r, size, cs)
             ELSE WorkerLoopInPlace(i + 1, g,
                      [newGrid EXCEPT ![y][x].changed = FALSE],
                      changedCells, r, size, cs)

\* The worker's loops over y and x, cell i = y * cols + x onwards: every
\* cell reads grid and writes newGrid.  The result holds both objects as the
\* loops leave them, and changedCells.
RECURSIVE WorkerLoop(_, _, _, _, _, _, _)
WorkerLoop(i, g, newGrid, changedCells, r, size, cs) ==
    IF i >= size.rows * size.cols
    THEN [grid |-> g, newGrid |-> newGrid, changedCells |-> changedCells]
    ELSE LET y == i \div size.cols
             x == i % size.cols
             cell == g[y][x]
             n == CountNeighbors(g, y, x, r, size)
             res == WorkerCellRule(cell, n.neighbors, n.stateSum, r, cs)
         IN  IF res.cellChanged
             THEN WorkerLoop(i + 1, g,
                      [newGrid EXCEPT ![y][x] = [state |-> res.newState,
                                                 age |-> res.newAge,
                                                 changed |-> TRUE]],
                      Append(changedCells, [x |-> x, y |-> y]), r, size, cs)
             ELSE WorkerLoop(i + 1, g,
                      [newGrid EXCEPT ![y][x].changed = FALSE],
                      changedCells, r, size, cs)

\* A handler whose birth range moves with the generation counter, a state
\* outside the request (C17 tells them apart).
WorkerStepStateful(req) ==
    WorkerLoop(0, req.grid, JsonCopy(req.grid, req.gridSize), << >>,
               [req.rules EXCEPT !.birthMin = req.rules.birthMin - generation],
               req.gridSize, req.colorScheme)

\* self.onmessage of the worker: { newGrid, changedCells } for a request, and
\* the grid of the request as the handler leaves it.
WorkerStep(req) ==
    WorkerLoop(0, req.grid, JsonCopy(req.grid, req.gridSize), << >>,
               req.rules, req.gridSize, req.colorScheme)

\* "Apply rules" of the main-thread fallback for one cell.  It updates
\* newGrid[y][x] in place: copy is that cell before the update.
FallbackCellRule(cell, copy, neighbors, stateSum, r, cs) ==
    IF Gt0(cell.state)
    THEN IF InSurviveRange(neighbors, r)
         THEN LET nextState == Min2(cell.state + 1, r.states)
                  stateChanged == r.states > 1 /\ nextState # cell.state
              IN  [state |-> IF stateChanged THEN nextState ELSE copy.state,
                   age |-> copy.age + 1,
                   changed |-> stateChanged \/ (cell.age # copy.age + 1)]
         ELSE IF cs.trailEffect
              THEN IF TrailOver(cell.age + 1, cs)
                   THEN [state |-> 0, age |-> 0, changed |-> TRUE]
                   ELSE [state |-> copy.state, age |-> cell.age + 1, changed |-> TRUE]
              ELSE [state |-> 0, age |-> 0, changed |-> TRUE]
    ELSE IF InBirthRange(neighbors, r)
         THEN [state |-> BirthState(stateSum, neighbors, r), age |-> 0,
               changed |-> TRUE]
         ELSE [state |-> copy.state, age |-> copy.age, changed |-> FALSE]

\* The fallback's loops: grid and newGrid as the loops leave them.
RECURSIVE FallbackLoop(_, _, _, _, _, _)
FallbackLoop(i, g, newGrid, r, size, cs) ==
    IF i >= size.rows * size.cols
    THEN [grid |-> g, newGrid |-> newGrid]
    ELSE LET y == i \div size.cols
             x == i % size.cols
             n == CountNeighbors(g, y, x, r, size)
         IN  FallbackLoop(i + 1, g,
                 [newGrid EXCEPT ![y][x] =
                     FallbackCellRule(g[y][x], @, n.neighbors, n.stateSum, r, cs)],
                 r, size, cs)

\* computeNextGeneration without a worker: grid and newGrid after the loops.
FallbackRun(req) ==
    FallbackLoop(0, req.grid, JsonCopy(req.grid, req.gridSize), req.rules,
                 req.gridSize, req.colorScheme)

\* A fallback whose newGrid starts as the grid itself, not as its JSON copy
\* (C30 tells them apart).
FallbackStepUncopied(req) ==
    FallbackLoop(0, req.grid, req.grid, req.rules, req.gridSize, req.colorScheme).newGrid

\* computeNextGeneration without a worker: the new grid, given to setGrid.
FallbackStep(req) == FallbackRun(req).newGrid

---------------------------------------------------------------------------
(* The step on cell objects.  A grid of the program is an array of rows of *)
(* references to cell objects; the loops of a step read the objects of     *)
(* grid and assign to properties of the objects of newGrid.  refs[y][x] is *)
(* the object grid[y][x] refers to and heap[o] holds the properties of the *)
(* object o.                                                               *)

\* The object that grid[y][x] of a step's input refers to, and the object
\* that JSON.parse creates for newGrid[y][x].
GridObject(y, x) == <<"grid", y, x>>
ParsedObject(y, x) == <<"newGrid", y, x>>

\* The grid a step is given: its references and its objects.
GridRefs(size) == [y \in RowIdx(size) |-> [x \in ColIdx(size) |-> GridObject(y, x)]]
GridHeap(g, size) ==
    [o \in {GridObject(c[1], c[2]) : c \in RowIdx(size) \X ColIdx(size)} |-> g[o[2]][o[3]]]

\* The cells that the references refs hold in heap.
Deref(refs, heap, size) ==
    [y \in RowIdx(size) |-> [x \in ColIdx(size) |-> heap[refs[y][x]]]]

\* A copy of the rows only, as grid.map(row => [...row]) makes it: newGrid
\* refers to the cell objects of grid (C16 tells them apart).
ShallowCopyObjects(refs, heap, size) == [refs |-> refs, heap |-> heap]

\* newGrid = JSON.parse(JSON.stringify(grid)): a new object for every cell,
\* holding what JSON keeps of the cell.
JsonCopyObjects(refs, heap, size) ==
    [refs |-> [y \in RowIdx(size) |-> [x \in ColIdx(size) |-> ParsedObject(y, x)]],
     heap |-> [o \in DOMAIN heap \cup
                     {ParsedObject(c[1], c[2]) : c \in RowIdx(size) \X ColIdx(size)} |->
                  IF o \in DOMAIN heap THEN heap[o] ELSE JsonCell(heap[refs[o[2]][o[3]]])]]

\* The worker's loops: the heap as they leave it.
RECURSIVE WorkerObjectLoop(_, _, _, _, _, _, _)
WorkerObjectLoop(i, refs, newRefs, heap, r, size, cs) ==
    IF i >= size.rows * size.cols
    THEN heap
    ELSE LET y == i \div size.cols
             x == i % size.cols
             cell == heap[refs[y][x]]
             n == CountNeighbors(Deref(refs, heap, size), y, x, r, size)
             res == WorkerCellRule(cell, n.neighbors, n.stateSum, r, cs)
         IN  WorkerObjectLoop(i + 1, refs, newRefs,
                 IF res.cellChanged
                 THEN [heap EXCEPT ![newRefs[y][x]] = [state |-> res.newState,
                                                       age |-> res.newAge,
                                                       changed |-> TRUE]]
                 ELSE [heap EXCEPT ![newRefs[y][x]].changed = FALSE],
                 r, size, cs)

\* The fallback's loops: the heap as they leave it.
RECURSIVE FallbackObjectLoop(_, _, _, _, _, _, _)
FallbackObjectLoop(i, refs, newRefs, heap, r, size, cs) ==
    IF i >= size.rows * size.cols
    THEN heap
    ELSE LET y == i \div size.cols
             x == i % size.cols
             cell == heap[refs[y][x]]
             n == CountNeighbors(Deref(refs, heap, size), y, x, r, size)
         IN  FallbackObjectLoop(i + 1, refs, newRefs,
                 [heap EXCEPT ![newRefs[y][x]] =
                     FallbackCellRule(cell, @, n.neighbors, n.stateSum, r, cs)],
                 r, size, cs)

\* A step on the objects of its request: the references of grid and of
\* newGrid, and the heap before the step and after it.
StepObjects(req, path) ==
    LET refs == GridRefs(req.gridSize)
        before == GridHeap(req.grid, req.gridSize)
        copy == JsonCopyObjects(refs, before, req.gridSize)
    IN  [refs |-> refs,
         newRefs |-> copy.refs,
         before |-> before,
         heap |-> IF path = "worker"
                  THEN WorkerObjectLoop(0, refs, copy.refs, copy.heap, req.rules,
                                        req.gridSize, req.colorScheme)
                  ELSE FallbackObjectLoop(0, refs, copy.refs, copy.heap, req.rules,
                                          req.gridSize, req.colorScheme)]

---------------------------------------------------------------------------
(* Patterns and pattern stamping.  A pattern is a sequence of rows, each a *)
(* sequence of numbers; pattern[y][x] of the source is p[y + 1][x + 1].    *)

glider == << <<0, 1, 0>>, <<0, 0, 1>>, <<1, 1, 1>> >>

rpentomino == << <<0, 1, 1>>, <<1, 1, 0>>, <<0, 1, 0>> >>

toad == << <<0, 1, 1, 1>>, <<1, 1, 1, 0>> >>

\* Math.floor(a / 2) for a >= 0
FloorHalf(a) == a \div 2

\* An anchor at the grid's centre, whatever the pattern's size (C22 tells
\* them apart).
PatternAnchorUncentred(p, size) ==
    [y |-> FloorHalf(size.rows), x |-> FloorHalf(size.cols)]

PatternAnchor(p, size) ==
    [y |-> FloorHalf(size.rows) - FloorHalf(Len(p)),
     x |-> FloorHalf(size.cols) - FloorHalf(Len(p[1]))]

\* A stamp onto a cleared grid (C28 tells them apart).
StampPatternCleared(g, p, size) ==
    LET a == PatternAnchor(p, size)
    IN  [y \in RowIdx(size) |-> [x \in ColIdx(size) |->
            IF /\ y - a.y >= 0 /\ y - a.y < Len(p)
               /\ x - a.x >= 0 /\ x - a.x < Len(p[1])
            THEN [state |-> p[y - a.y + 1][x - a.x + 1], age |-> 0,
                  changed |-> g[y][x].changed]
            ELSE DeadCell]]

\* applyPattern's new grid
StampPattern(g, p, size) ==
    LET a == PatternAnchor(p, size)
        copy == JsonCopy(g, size)
    IN  [y \in RowIdx(size) |-> [x \in ColIdx(size) |->
            IF /\ y - a.y >= 0 /\ y - a.y < Len(p)
               /\ x - a.x >= 0 /\ x - a.x < Len(p[1])
            THEN [state |-> p[y - a.y + 1][x - a.x + 1], age |-> 0,
                  changed |-> copy[y][x].changed]
            ELSE copy[y][x]]]

\* exportCurrentPattern's scan for the pattern bounds: b holds minX, minY,
\* maxX and maxY after the first i cells in row-major order.
RECURSIVE ExportBounds(_, _, _, _)
ExportBounds(i, g, size, b) ==
    IF i = size.rows * size.cols THEN b
    ELSE LET y == i \div size.cols
             x == i % size.cols
         IN  ExportBounds(i + 1, g, size,
                 IF Gt0(g[y][x].state)
                 THEN [minX |-> JsMin(b.minX, x), minY |-> JsMin(b.minY, y),
                       maxX |-> JsMax(b.maxX, x), maxY |-> JsMax(b.maxY, y)]
                 ELSE b)

\* An extraction that starts at row 0 and column 0 (C21 tells them apart).
PatternDataFromOrigin(g, size) ==
    LET b == ExportBounds(0, g, size,
                 [minX |-> size.cols, minY |-> size.rows, maxX |-> 0, maxY |-> 0])
    IN  IF b.minY > b.maxY THEN << >>
        ELSE [i \in 1 .. (b.maxY + 1) |-> [j \in 1 .. (b.maxX + 1) |-> g[i - 1][j - 1].state]]

\* patternData: the rows minY .. maxY of the columns minX .. maxX.
PatternData(g, size) ==
    LET b == ExportBounds(0, g, size,
                 [minX |-> size.cols, minY |-> size.rows, maxX |-> 0, maxY |-> 0])
    IN  [i \in 1 .. (b.maxY - b.minY + 1) |->
            [j \in 1 .. (b.maxX - b.minX + 1) |-> g[b.minY + i - 1][b.minX + j - 1].state]]

\* JSON.stringify(patternData), as the matrix JSON.parse reads back from it:
\* a NaN entry is written as null.
JsonMatrix(m) == [i \in 1 .. Len(m) |-> [j \in 1 .. Len(m[i]) |-> JsonValue(m[i][j])]]

---------------------------------------------------------------------------
(* Rule presets and default settings.                                      *)

DefaultRules ==
    [surviveMin |-> 2, surviveMax |-> 3, birthMin |-> 3, birthMax |-> 3,
     states |-> 1, neighborhood |-> "moore", wrapping |-> TRUE]

DefaultColorScheme == [trailEffect |-> FALSE, trailLength |-> 5]

rulePresets ==
    [gameOfLife |-> [surviveMin |-> 2, surviveMax |-> 3, birthMin |-> 3, birthMax |-> 3, states |-> 1],
     dayAndNight |-> [surviveMin |-> 3, surviveMax |-> 6, birthMin |-> 3, birthMax |-> 6, states |-> 1],
     seeds |-> [surviveMin |-> 0, surviveMax |-> 0, birthMin |-> 2, birthMax |-> 2, states |-> 1],
     serviettes |-> [surviveMin |-> 0, surviveMax |-> 0, birthMin |-> 2, birthMax |-> 4, states |-> 1],
     coral |-> [surviveMin |-> 4, surviveMax |-> 8, birthMin |-> 3, birthMax |-> 3, states |-> 1],
     maze |-> [surviveMin |-> 1, surviveMax |-> 5, birthMin |-> 3, birthMax |-> 3, states |-> 1],
     multicolor |-> [surviveMin |-> 2, surviveMax |-> 3, birthMin |-> 3, birthMax |-> 3, states |-> 5]]

\* A preset that replaces the rules, the fields it lacks taking their
\* defaults (C19 tells them apart).
MergePresetReplacing(prev, preset) ==
    [DefaultRules EXCEPT !.surviveMin = rulePresets[preset].surviveMin,
                         !.surviveMax = rulePresets[preset].surviveMax,
                         !.birthMin = rulePresets[preset].birthMin,
                         !.birthMax = rulePresets[preset].birthMax,
                         !.states = rulePresets[preset].states]

\* { ...prev, ...rulePresets[preset] }
MergePreset(prev, preset) ==
    [prev EXCEPT !.surviveMin = rulePresets[preset].surviveMin,
                 !.surviveMax = rulePresets[preset].surviveMax,
                 !.birthMin = rulePresets[preset].birthMin,
                 !.birthMax = rulePresets[preset].birthMax,
                 !.states = rulePresets[preset].states]

---------------------------------------------------------------------------
(* Drawing.                                                                *)

\* drawGrid in the default view (zoom 1, pan (0, 0)): the cells it fills
\* with a cell colour, on a canvas it has cleared to the background.  In
\* this view the visible cells are all cells (the canvas is cols * cellSize
\* by rows * cellSize pixels, cellSize a whole number) and shouldDrawAll is
\* false: the loops skip every cell whose changed flag is not set.  Other
\* views are outside the model.
DrawGrid(g, size) ==
    {c \in RowIdx(size) \X ColIdx(size) :
        /\ g[c[1]][c[2]].changed = TRUE
        /\ Gt0(g[c[1]][c[2]].state)}

---------------------------------------------------------------------------
(* The handlers.                                                           *)

\* What computeNextGeneration posts to the worker, or steps itself.
Request ==
    [grid |-> grid, rules |-> rules, colorScheme |-> colorScheme, gridSize |-> gridSize]

Event(op, y, x) == [op |-> op, y |-> y, x |-> x, thrown |-> "none", arg |-> << >>]

\* The record of a call of a handler that takes the argument arg.
Call(op, arg) == [op |-> op, y |-> 0, x |-> 0, thrown |-> "none", arg |-> arg]

\* The cell a canvas edit at grid coordinates (y, x) writes: none (<<>>)
\* unless x >= 0 && x < gridSize.cols && y >= 0 && y < gridSize.rows.
EditTarget(y, x, size) ==
    IF x >= 0 /\ x < size.cols /\ y >= 0 /\ y < size.rows THEN <<y, x>> ELSE << >>

\* newGrid[y][x].state = s; .age = 0; .changed = true
WriteCell(g, c, s) ==
    [g EXCEPT ![c[1]][c[2]] = [state |-> s, age |-> 0, changed |-> TRUE]]

\* (currentState + 1) % (rules.states + 1): NaN for NaN, null counts as 0.
ClickState(currentState, states) ==
    IF currentState = NaN \/ states = NaN THEN NaN
    ELSE JsRem(ToNum(currentState) + 1, ToNum(states) + 1)

\* currentState === 0 ? 1 : 0
DownState(currentState) == IF currentState = 0 THEN 1 ELSE 0

\* An effect that clears the pending timeout and sets none (C32 tells them
\* apart).
RearmNever(running) == timerArmed' = FALSE

\* The animation loop's effect runs again after a render in which isRunning,
\* computeNextGeneration (grid, rules, gridSize, trail settings), generation
\* or speed changed: it clears the pending timeout and, if running, sets one.
Rearm(running) == timerArmed' = running

\* The record of a canvas event of a click gesture.
GestureEvent(op, y, x, pan) == [op |-> op, y |-> y, x |-> x, pan |-> pan, grid |-> grid]

\* handleCanvasClick
HandleCanvasClick(y, x) ==
    LET c == EditTarget(y, x, gridSize)
    IN  /\ lastEvent' = Event("click", y, x)
        /\ pre' = grid
        /\ ops' = ops + 1
        /\ gesture' = IF Len(gesture) = 2
                      THEN Append(gesture, GestureEvent("click", y, x, FALSE))
                      ELSE << >>
        /\ IF isPanning \/ c = << >>
           THEN UNCHANGED <<grid, timerArmed, hist>>
           ELSE /\ grid' = WriteCell(grid, c, ClickState(grid[c[1]][c[2]].state, rules.states))
                /\ hist' = << grid' >>
                /\ Rearm(isRunning)
        /\ UNCHANGED <<speed, savedRulesets, reads, downloads, gridSize, rules, colorScheme, isRunning, generation, isDrawing,
                       drawMode, isPanning, hasWorker, toWorker, fromWorker, lastStep, stepLog>>

\* handleCanvasMouseDown; pan: the right button or the ctrl key is down
HandleCanvasMouseDown(y, x, pan) ==
    LET c == EditTarget(y, x, gridSize)
    IN  /\ lastEvent' = [Event("mousedown", y, x) EXCEPT !.arg = pan]
        /\ pre' = grid
        /\ ops' = ops + 1
        /\ gesture' = << GestureEvent("mousedown", y, x, pan) >>
        /\ IF pan
           THEN /\ isPanning' = TRUE
                /\ UNCHANGED <<grid, isDrawing, drawMode, timerArmed, hist>>
           ELSE IF isRunning
           THEN UNCHANGED <<grid, isDrawing, drawMode, isPanning, timerArmed, hist>>
           ELSE /\ isDrawing' = TRUE
                /\ UNCHANGED isPanning
                /\ IF c = << >>
                   THEN UNCHANGED <<grid, drawMode, timerArmed, hist>>
                   ELSE /\ drawMode' = DownState(grid[c[1]][c[2]].state)
                        /\ grid' = WriteCell(grid, c, DownState(grid[c[1]][c[2]].state))
                        /\ hist' = << grid' >>
                        /\ Rearm(isRunning)
        /\ UNCHANGED <<speed, savedRulesets, reads, downloads, gridSize, rules, colorScheme, isRunning, generation, hasWorker,
                       toWorker, fromWorker, lastStep, stepLog>>

\* handleCanvasMouseMove.  While panning it calls constrainPan, which the
\* file defines nowhere: the handler ends with a ReferenceError before it
\* sets anything.
HandleCanvasMouseMove(y, x) ==
    LET c == EditTarget(y, x, gridSize)
        s == IF drawMode # 0 THEN 1 ELSE 0
    IN  /\ lastEvent' = [Event("mousemove", y, x) EXCEPT
                             !.thrown = IF isPanning THEN "ReferenceError" ELSE "none"]
        /\ pre' = grid
        /\ ops' = ops + 1
        /\ gesture' = << >>
        /\ IF isPanning \/ ~isDrawing \/ isRunning \/ c = << >>
           THEN UNCHANGED <<grid, timerArmed, hist>>
           ELSE IF grid[c[1]][c[2]].state # s
           THEN /\ grid' = WriteCell(grid, c, s)
                /\ hist' = << grid' >>
                /\ Rearm(isRunning)
           ELSE UNCHANGED <<grid, timerArmed, hist>>
        /\ UNCHANGED <<speed, savedRulesets, reads, downloads, gridSize, rules, colorScheme, isRunning, generation, isDrawing,
                       drawMode, isPanning, hasWorker, toWorker, fromWorker, lastStep, stepLog>>

\* handleCanvasMouseUp
HandleCanvasMouseUp ==
    /\ lastEvent' = Event("mouseup", 0, 0)
    /\ pre' = grid
    /\ ops' = ops + 1
    /\ gesture' = IF Len(gesture) = 1
                  THEN Append(gesture, GestureEvent("mouseup", 0, 0, FALSE))
                  ELSE << >>
    /\ isDrawing' = FALSE
    /\ isPanning' = FALSE
    /\ UNCHANGED <<speed, savedRulesets, reads, downloads, gridSize, grid, rules, colorScheme, isRunning, generation, drawMode,
                   hasWorker, timerArmed, toWorker, fromWorker, lastStep, stepLog, hist>>

\* A pending read after a handler has given setGrid a grid of new cells:
\* the applyPattern it closed over keeps the grid of its render.
RECURSIVE Freeze(_)
Freeze(rs) ==
    IF rs = << >> THEN << >>
    ELSE << IF Head(rs).live
            THEN [pattern |-> Head(rs).pattern, live |-> FALSE, grid |-> grid]
            ELSE Head(rs) >> \o Freeze(Tail(rs))

\* applyPattern(pattern) of the render whose grid is g.
StampGrid(g, p) ==
    /\ lastEvent' = Call("applyPattern", p)
    /\ pre' = grid
    /\ grid' = StampPattern(g, p, gridSize)
    /\ generation' = 0
    /\ hist' = << grid' >>
    /\ Rearm(isRunning)
    /\ UNCHANGED <<speed, savedRulesets, gesture, downloads, gridSize, rules, colorScheme, isRunning,
                   isDrawing, drawMode, isPanning, hasWorker, toWorker, fromWorker, lastStep,
                   stepLog>>

\* applyPattern(pattern), called by a pattern button
ApplyPattern(p) ==
    /\ ops' = ops + 1
    /\ reads' = Freeze(reads)
    /\ StampGrid(grid, p)

\* exportCurrentPattern: the file it offers holds dataStr.
ExportCurrentPattern ==
    /\ downloads' = Append(downloads, JsonMatrix(PatternData(grid, gridSize)))
    /\ lastEvent' = Call("exportCurrentPattern", downloads'[Len(downloads')])
    /\ pre' = grid
    /\ ops' = ops + 1
    /\ UNCHANGED <<speed, savedRulesets, reads, gesture, gridSize, grid, rules, colorScheme, isRunning, generation, isDrawing,
                   drawMode, isPanning, hasWorker, timerArmed, toWorker, fromWorker,
                   lastStep, stepLog, hist>>

\* importPattern: the change handler of the file input gives the file to a
\* FileReader and returns.  pattern is what JSON.parse reads from the file.
ImportPattern(pattern) ==
    /\ lastEvent' = Call("importPattern", pattern)
    /\ pre' = grid
    /\ ops' = ops + 1
    /\ reads' = Append(reads, [pattern |-> pattern, live |-> TRUE, grid |-> << >>])
    /\ UNCHANGED <<speed, savedRulesets, gesture, downloads, gridSize, grid, rules, colorScheme,
                   isRunning, generation, isDrawing, drawMode, isPanning, hasWorker,
                   timerArmed, toWorker, fromWorker, lastStep, stepLog, hist>>

\* reader.onload of a pending read: it calls the applyPattern of the render
\* in which the file was picked; a pattern without rows is not applied.
ReaderOnLoad ==
    \E i \in 1 .. Len(reads) :
        LET r == reads[i]
            rest == SubSeq(reads, 1, i - 1) \o SubSeq(reads, i + 1, Len(reads))
        IN  IF Len(r.pattern) > 0
            THEN /\ StampGrid(IF r.live THEN grid ELSE r.grid, r.pattern)
                 /\ reads' = Freeze(rest)
                 /\ UNCHANGED ops
            ELSE /\ lastEvent' = Call("reader.onload", r.pattern)
                 /\ pre' = grid
                 /\ reads' = rest
                 /\ UNCHANGED <<speed, savedRulesets, gesture, downloads, gridSize, grid, rules,
                                colorScheme, isRunning, generation, isDrawing, drawMode,
                                isPanning, hasWorker, timerArmed, toWorker, fromWorker,
                                lastStep, stepLog, hist, ops>>

\* saveCurrentRuleset with rulesetName = name: a blank name saves nothing.
SaveCurrentRuleset(name) ==
    /\ lastEvent' = Call("saveCurrentRuleset", name)
    /\ pre' = grid
    /\ ops' = ops + 1
    /\ savedRulesets' =
           IF name = "" THEN savedRulesets
           ELSE {e \in savedRulesets : e.name # name} \cup
                {[name |-> name, rules |-> rules, hasColorScheme |-> TRUE,
                  colorScheme |-> colorScheme]}
    /\ UNCHANGED <<speed, reads, gesture, downloads, gridSize, grid, rules, colorScheme, isRunning,
                   generation, isDrawing, drawMode, isPanning, hasWorker, timerArmed,
                   toWorker, fromWorker, lastStep, stepLog, hist>>

\* loadRuleset(name): setRules takes the saved rules whole; setColorScheme
\* runs if the entry has a colour scheme.
LoadRuleset(name) ==
    /\ lastEvent' = Call("loadRuleset", name)
    /\ pre' = grid
    /\ ops' = ops + 1
    /\ IF \E e \in savedRulesets : e.name = name
       THEN LET e == CHOOSE e \in savedRulesets : e.name = name
            IN  /\ rules' = e.rules
                /\ colorScheme' = IF e.hasColorScheme THEN e.colorScheme ELSE colorScheme
                /\ Rearm(isRunning)
       ELSE UNCHANGED <<rules, colorScheme, timerArmed>>
    /\ UNCHANGED <<speed, savedRulesets, reads, gesture, downloads, gridSize, grid, isRunning,
                   generation, isDrawing, drawMode, isPanning, hasWorker, toWorker,
                   fromWorker, lastStep, stepLog, hist>>

\* deleteRuleset(name)
DeleteRuleset(name) ==
    /\ lastEvent' = Call("deleteRuleset", name)
    /\ pre' = grid
    /\ ops' = ops + 1
    /\ savedRulesets' = {e \in savedRulesets : e.name # name}
    /\ UNCHANGED <<speed, reads, gesture, downloads, gridSize, grid, rules, colorScheme, isRunning,
                   generation, isDrawing, drawMode, isPanning, hasWorker, timerArmed,
                   toWorker, fromWorker, lastStep, stepLog, hist>>

\* applyRulePreset(preset)
ApplyRulePreset(preset) ==
    /\ lastEvent' = Call("applyRulePreset", preset)
    /\ pre' = grid
    /\ ops' = ops + 1
    /\ rules' = MergePreset(rules, preset)
    /\ Rearm(isRunning)
    /\ UNCHANGED <<speed, savedRulesets, reads, gesture, downloads, gridSize, grid, colorScheme, isRunning, generation, isDrawing,
                   drawMode, isPanning, hasWorker, toWorker, fromWorker, lastStep, stepLog, hist>>

\* handleRuleChange(key, value)
HandleRuleChange(key, value) ==
    /\ lastEvent' = Event("handleRuleChange", 0, 0)
    /\ pre' = grid
    /\ ops' = ops + 1
    /\ rules' = [rules EXCEPT ![key] = value]
    /\ Rearm(isRunning)
    /\ UNCHANGED <<speed, savedRulesets, reads, gesture, downloads, gridSize, grid, colorScheme, isRunning, generation, isDrawing,
                   drawMode, isPanning, hasWorker, toWorker, fromWorker, lastStep, stepLog, hist>>

\* handleColorChange(key, value), for the keys the engine reads
HandleColorChange(key, value) ==
    /\ lastEvent' = Event("handleColorChange", 0, 0)
    /\ pre' = grid
    /\ ops' = ops + 1
    /\ colorScheme' = [colorScheme EXCEPT ![key] = value]
    /\ IF colorScheme[key] # value THEN Rearm(isRunning) ELSE UNCHANGED timerArmed
    /\ UNCHANGED <<speed, savedRulesets, reads, gesture, downloads, gridSize, grid, rules, isRunning, generation, isDrawing,
                   drawMode, isPanning, hasWorker, toWorker, fromWorker, lastStep, stepLog, hist>>

\* useState(100): ms between generations
InitialSpeed == 100

\* The speed slider's onChange with parseInt(e.target.value) = value (NaN
\* for a value that holds no number): setSpeed(500 - value).  The animation
\* loop's effect has speed among its dependencies and runs again when the
\* new speed is another value (Object.is, under which NaN is NaN).
SetSpeed(value) ==
    /\ lastEvent' = Call("setSpeed", value)
    /\ pre' = grid
    /\ ops' = ops + 1
    /\ speed' = IF value = NaN THEN NaN ELSE 500 - value
    /\ IF speed' # speed THEN Rearm(isRunning) ELSE UNCHANGED timerArmed
    /\ UNCHANGED <<savedRulesets, reads, gesture, downloads, gridSize, grid, rules, colorScheme, isRunning, generation,
                   isDrawing, drawMode, isPanning, hasWorker, toWorker, fromWorker, lastStep, stepLog, hist>>

\* toggleSimulation
ToggleSimulation ==
    /\ lastEvent' = Event("toggleSimulation", 0, 0)
    /\ pre' = grid
    /\ ops' = ops + 1
    /\ isRunning' = ~isRunning
    /\ Rearm(~isRunning)
    /\ UNCHANGED <<speed, savedRulesets, reads, gesture, downloads, gridSize, grid, rules, colorScheme, generation, isDrawing, drawMode,
                   isPanning, hasWorker, toWorker, fromWorker, lastStep, stepLog, hist>>

\* resetGrid
ResetGrid ==
    /\ lastEvent' = Event("resetGrid", 0, 0)
    /\ pre' = grid
    /\ ops' = ops + 1
    /\ isRunning' = FALSE
    /\ grid' = EmptyGrid(gridSize)
    /\ reads' = Freeze(reads)
    /\ generation' = 0
    /\ hist' = << grid' >>
    /\ Rearm(FALSE)
    /\ UNCHANGED <<speed, savedRulesets, gesture, downloads, gridSize, rules, colorScheme, isDrawing, drawMode, isPanning,
                   hasWorker, toWorker, fromWorker, lastStep, stepLog>>

\* Random numbers and densities are counted in tenths: Math.random() gives
\* 0, 1, ..., 9 tenths, and a density of 0.3 is 3.

\* A test that also takes a random number equal to the density (C20 tells
\* them apart).
BelowDensityInclusive(random, density) == random <= density

\* Math.random() < density
BelowDensity(random, density) == random < density

\* rules.states > 1 ? Math.floor(Math.random() * rules.states) + 1 : 1
RandomState(random, states) ==
    IF states > 1 THEN ((random * states) \div 10) + 1 ELSE 1

\* randomFill(density): rnd[c] is the random number compared with the
\* density for cell c, pick[c] the one its state is drawn with.
RandomFill(density, rnd, pick) ==
    /\ lastEvent' = Call("randomFill", [density |-> density, rnd |-> rnd, pick |-> pick])
    /\ pre' = grid
    /\ ops' = ops + 1
    /\ grid' = [y \in RowIdx(gridSize) |-> [x \in ColIdx(gridSize) |->
                  [state |-> IF BelowDensity(rnd[<<y, x>>], density)
                             THEN RandomState(pick[<<y, x>>], rules.states)
                             ELSE 0,
                   age |-> 0,
                   changed |-> grid[y][x].changed]]]
    /\ reads' = Freeze(reads)
    /\ generation' = 0
    /\ hist' = << grid' >>
    /\ Rearm(isRunning)
    /\ UNCHANGED <<speed, savedRulesets, gesture, downloads, gridSize, rules, colorScheme, isRunning, isDrawing, drawMode,
                   isPanning, hasWorker, toWorker, fromWorker, lastStep, stepLog>>

\* The animation loop's timeout fires: computeNextGeneration().  With a
\* worker it posts the request; without one it steps the grid itself.
TimerFire ==
    /\ timerArmed
    /\ lastEvent' = Event("timer", 0, 0)
    /\ pre' = grid
    /\ IF hasWorker
       THEN /\ toWorker' = Append(toWorker, Request)
            /\ timerArmed' = FALSE
            /\ UNCHANGED <<grid, reads, generation, lastStep, stepLog, hist>>
       ELSE /\ grid' = FallbackStep(Request)
            /\ reads' = Freeze(reads)
            /\ generation' = generation + 1
            /\ lastStep' = [req |-> Request, changedCells |-> << >>, path |-> "fallback"]
            /\ stepLog' = Append(stepLog,
                   [req |-> Request, input |-> FallbackRun(Request).grid,
                    newGrid |-> FallbackStep(Request), changedCells |-> << >>,
                    path |-> "fallback"])
            /\ hist' = Append(hist, FallbackStep(Request))
            /\ Rearm(isRunning)
            /\ UNCHANGED toWorker
    /\ UNCHANGED <<speed, savedRulesets, gesture, downloads, gridSize, rules, colorScheme, isRunning, isDrawing, drawMode,
                   isPanning, hasWorker, fromWorker, ops>>

\* The worker handles the first request posted to it and posts its answer.
WorkerOnMessage ==
    /\ toWorker # << >>
    /\ LET req == Head(toWorker)
           out == WorkerStep(req)
       IN  fromWorker' = Append(fromWorker,
               [newGrid |-> out.newGrid, changedCells |-> out.changedCells, req |-> req,
                input |-> out.grid])
    /\ toWorker' = Tail(toWorker)
    /\ UNCHANGED <<speed, savedRulesets, reads, gesture, downloads, gridSize, grid, rules, colorScheme, isRunning, generation, isDrawing,
                   drawMode, isPanning, hasWorker, timerArmed, lastEvent, pre, lastStep,
                   stepLog, hist, ops>>

\* workerRef.current.onmessage: the main thread takes the worker's answer.
MainOnMessage ==
    /\ fromWorker # << >>
    /\ LET msg == Head(fromWorker)
       IN  /\ grid' = msg.newGrid
           /\ lastStep' = [req |-> msg.req, changedCells |-> msg.changedCells,
                           path |-> "worker"]
           /\ stepLog' = Append(stepLog,
                  [req |-> msg.req, input |-> msg.input, newGrid |-> msg.newGrid,
                   changedCells |-> msg.changedCells, path |-> "worker"])
    /\ reads' = Freeze(reads)
    /\ generation' = generation + 1
    /\ fromWorker' = Tail(fromWorker)
    /\ lastEvent' = Event("onmessage", 0, 0)
    /\ pre' = grid
    /\ hist' = Append(hist, grid')
    /\ Rearm(isRunning)
    /\ UNCHANGED <<speed, savedRulesets, gesture, downloads, gridSize, rules, colorScheme, isRunning, isDrawing, drawMode,
                   isPanning, hasWorker, toWorker, ops>>

---------------------------------------------------------------------------
(* Inputs.                                                                 *)

Cells(size) == RowIdx(size) \X ColIdx(size)

\* Coordinates screenToGrid can return: every cell, and one step outside the
\* grid on each side.
EditCoords(size) == (-1 .. size.rows) \X (-1 .. size.cols)

\* A grid as the canvas handlers leave it: the cells of live drawn with the
\* states st, every age 0.
DrawnGrid(live, st, size) ==
    [y \in RowIdx(size) |-> [x \in ColIdx(size) |->
        IF <<y, x>> \in live
        THEN [state |-> st[<<y, x>>], age |-> 0, changed |-> TRUE]
        ELSE DeadCell]]

LiveSets(size, n) == {l \in SUBSET Cells(size) : Cardinality(l) <= n}

InputGrids(size) ==
    UNION {{DrawnGrid(live, st, size) : st \in [live -> 1 .. MaxInitState]} :
           live \in LiveSets(size, MaxLive)}

\* Settings of the step specification: rule settings that handleRuleChange
\* and applyRulePreset reach from the default, each with a trail setting.
StepSettings ==
    {[rules |-> DefaultRules, colorScheme |-> DefaultColorScheme],
     [rules |-> [surviveMin |-> 1, surviveMax |-> 3, birthMin |-> 2, birthMax |-> 3,
                 states |-> 5, neighborhood |-> "moore", wrapping |-> FALSE],
      colorScheme |-> [trailEffect |-> TRUE, trailLength |-> 1]],
     [rules |-> [surviveMin |-> 1, surviveMax |-> 2, birthMin |-> 1, birthMax |-> 2,
                 states |-> 5, neighborhood |-> "vonNeumann", wrapping |-> TRUE],
      colorScheme |-> DefaultColorScheme],
     [rules |-> [surviveMin |-> 2, surviveMax |-> 3, birthMin |-> 0, birthMax |-> 1,
                 states |-> 2, neighborhood |-> "moore", wrapping |-> TRUE],
      colorScheme |-> DefaultColorScheme],
     [rules |-> [surviveMin |-> 2, surviveMax |-> 3, birthMin |-> 0, birthMax |-> 0,
                 states |-> 1, neighborhood |-> "vonNeumann", wrapping |-> FALSE],
      colorScheme |-> [trailEffect |-> TRUE, trailLength |-> 2]],
     [rules |-> [surviveMin |-> 1, surviveMax |-> 0, birthMin |-> 2, birthMax |-> 1,
                 states |-> 1, neighborhood |-> "moore", wrapping |-> FALSE],
      colorScheme |-> DefaultColorScheme],
     [rules |-> [surviveMin |-> 2, surviveMax |-> 3, birthMin |-> 0, birthMax |-> 1,
                 states |-> 2, neighborhood |-> "vonNeumann", wrapping |-> FALSE],
      colorScheme |-> DefaultColorScheme]}

\* Every matrix of one row of n entries 0 or 1, as importPattern reads it
\* from a file.
BinaryRows(n) == {<< row >> : row \in [1 .. n -> {0, 1}]}

\* A 2 x 2 block, imported.
block == << <<1, 1>>, <<1, 1>> >>

PatternInputs == {glider, rpentomino, toad, block} \cup BinaryRows(ImportLen)

\* Matrices importPattern reads from a file, for the application
\* specification.
ImportInputs ==
    {<< <<1, 1>>, <<1, 1>> >>, << <<2, 0>>, <<7, 1>> >>, << <<0 - 1, 3>> >>}

\* Values the number inputs of the rule settings send to handleRuleChange.
RuleChangeInputs ==
    ({"surviveMin", "surviveMax", "birthMin", "birthMax"} \X {0, 2, NaN})
        \cup ({"states"} \X {1, 2, NaN})
        \cup ({"neighborhood"} \X {"moore", "vonNeumann"})
        \cup ({"wrapping"} \X BOOLEAN)

\* Values of Math.random(), in tenths.
RandomDraws == {0, 5, 9}

\* The density the Random button passes: randomFill(0.3).
ButtonDensity == 3

\* Densities in tenths: below 0, 0, 0.3, 1 and above 1.
Densities == {0 - 5, 0, ButtonDensity, 10, 15}

\* Grids randomFill is called on: an empty one, and one whose cells have
\* lived for FillAge steps.
FillGrids(size) ==
    {EmptyGrid(size),
     [y \in RowIdx(size) |-> [x \in ColIdx(size) |->
         [state |-> 1, age |-> FillAge, changed |-> TRUE]]]}

\* The random numbers of one call: any for the density test; for the
\* states one number for all cells, or two numbers in a chequered pattern.
FillPicks(size) ==
    {[c \in Cells(size) |-> v] : v \in RandomDraws}
        \cup {[c \in Cells(size) |-> IF (c[1] + c[2]) % 2 = 0 THEN 0 ELSE 9]}

\* The presets the preset buttons apply.
PresetInputs == {"gameOfLife", "dayAndNight", "seeds", "coral", "maze", "multicolor"}

ColorChangeInputs == ({"trailEffect"} \X BOOLEAN) \cup ({"trailLength"} \X {1, 3})

---------------------------------------------------------------------------
(* Specifications.                                                         *)

\* The variables but savedRulesets, in a mounted component.
InitState(size, g, r, cs, running) ==
    /\ gridSize = size
    /\ grid = g
    /\ rules = r
    /\ colorScheme = cs
    /\ isRunning = running
    /\ speed = InitialSpeed
    /\ generation = 0
    /\ isDrawing = FALSE
    /\ drawMode = 1
    /\ isPanning = FALSE
    /\ hasWorker \in BOOLEAN
    /\ timerArmed = running
    /\ toWorker = << >>
    /\ fromWorker = << >>
    /\ downloads = << >>
    /\ lastEvent = Event("init", 0, 0)
    /\ pre = g
    /\ lastStep = [req |-> [grid |-> g, rules |-> r, colorScheme |-> cs, gridSize |-> size],
                   changedCells |-> << >>, path |-> "none"]
    /\ stepLog = << >>
    /\ hist = << g >>
    /\ gesture = << >>
    /\ reads = << >>
    /\ ops = 0

\* A mounted component that found no saved rulesets.
InitWith(size, g, r, cs, running) ==
    /\ InitState(size, g, r, cs, running)
    /\ savedRulesets = {}

\* What localStorage holds under 'cellular-automata-rulesets' at mount:
\* nothing, or an entry saved by an earlier session.
StoredRulesets ==
    {{},
     {[name |-> "old",
       rules |-> [surviveMin |-> 0, surviveMax |-> 8, birthMin |-> 1, birthMax |-> 1,
                  states |-> 4, neighborhood |-> "vonNeumann", wrapping |-> TRUE],
       hasColorScheme |-> FALSE, colorScheme |-> DefaultColorScheme]}}

\* The first commit has run its effects with grid = [] and the grid of
\* initializeGrid has been rendered: the canvas was not attached when
\* drawGrid first ran (if (!canvas) return).
Mounted == lastEvent.thrown = "none" \/ lastEvent.op # "init"

\* The first commit with the canvas attached: drawGrid reads grid[y][x] of
\* grid = [] and throws; React unmounts the component, whose clean-up ends
\* the worker.  No handler runs afterwards.
InitThrown ==
    /\ gridSize = [rows |-> Rows, cols |-> Cols]
    /\ grid = << >>
    /\ rules = DefaultRules
    /\ colorScheme = DefaultColorScheme
    /\ isRunning = FALSE
    /\ speed = InitialSpeed
    /\ generation = 0
    /\ isDrawing = FALSE
    /\ drawMode = 1
    /\ isPanning = FALSE
    /\ hasWorker = FALSE
    /\ timerArmed = FALSE
    /\ toWorker = << >>
    /\ fromWorker = << >>
    /\ downloads = << >>
    /\ savedRulesets = {}
    /\ reads = << >>
    /\ lastEvent = [Event("init", 0, 0) EXCEPT !.thrown = "TypeError"]
    /\ pre = << >>
    /\ lastStep = [req |-> [grid |-> << >>, rules |-> DefaultRules,
                            colorScheme |-> DefaultColorScheme,
                            gridSize |-> [rows |-> Rows, cols |-> Cols]],
                   changedCells |-> << >>, path |-> "none"]
    /\ stepLog = << >>
    /\ hist = << << >> >>
    /\ gesture = << >>
    /\ ops = 0

\* The component after its first commit.
Init ==
    \/ /\ InitState([rows |-> Rows, cols |-> Cols], EmptyGrid([rows |-> Rows, cols |-> Cols]),
                    DefaultRules, DefaultColorScheme, FALSE)
       /\ savedRulesets \in StoredRulesets
    \/ InitThrown

\* Names of saved rulesets; the blank name saves nothing.
RulesetNames == {"mine", "old"}

\* Positions of the speed slider (min 20, max 500), and the value that
\* parses to no number.
SpeedInputs == {300, NaN}

UserOp ==
    \/ \E c \in EditCoords(gridSize) : HandleCanvasClick(c[1], c[2])
    \/ \E c \in EditCoords(gridSize), pan \in BOOLEAN : HandleCanvasMouseDown(c[1], c[2], pan)
    \/ \E c \in EditCoords(gridSize) : HandleCanvasMouseMove(c[1], c[2])
    \/ HandleCanvasMouseUp
    \/ \E p \in {glider} : ApplyPattern(p)
    \/ \E p \in ImportInputs \cup {<< >>} : ImportPattern(p)
    \/ \E preset \in PresetInputs : ApplyRulePreset(preset)
    \/ \E name \in RulesetNames \cup {""} : SaveCurrentRuleset(name)
    \/ \E name \in RulesetNames : LoadRuleset(name)
    \/ \E name \in RulesetNames : DeleteRuleset(name)
    \/ \E kv \in RuleChangeInputs : HandleRuleChange(kv[1], kv[2])
    \/ \E kv \in ColorChangeInputs : HandleColorChange(kv[1], kv[2])
    \/ \E v \in SpeedInputs : SetSpeed(v)
    \/ ToggleSimulation
    \/ ResetGrid
    \/ ExportCurrentPattern
    \/ \E live \in LiveSets(gridSize, 1), v \in RandomDraws :
           RandomFill(ButtonDensity,
                      [c \in Cells(gridSize) |-> IF c \in live THEN 0 ELSE 9],
                      [c \in Cells(gridSize) |-> v])

Next ==
    \/ Mounted /\ ops < MaxOps /\ UserOp
    \/ generation < MaxGen /\ TimerFire
    \/ WorkerOnMessage
    \/ MainOnMessage
    \/ ReaderOnLoad

Spec == Init /\ [][Next]_vars

\* The step engine on its inputs: the simulation runs on a drawn grid under
\* one of the rule and trail settings, and nothing else happens.
InitStep ==
    \E g \in InputGrids([rows |-> Rows, cols |-> Cols]), k \in StepSettings :
        InitWith([rows |-> Rows, cols |-> Cols], g, k.rules, k.colorScheme, TRUE)

NextStep ==
    \/ generation < StepGen /\ TimerFire
    \/ WorkerOnMessage
    \/ MainOnMessage

SpecStep == InitStep /\ [][NextStep]_vars

\* Conway's rules on a stamped pattern: the simulation runs on the grid
\* applyPattern leaves from an empty one, with wrapping and the trail effect
\* on or off.
InitPattern ==
    \E p \in PatternInputs, w \in BOOLEAN,
       cs \in {DefaultColorScheme, [trailEffect |-> TRUE, trailLength |-> 3]} :
        LET size == [rows |-> PatternRows, cols |-> PatternCols]
        IN  InitWith(size, StampPattern(EmptyGrid(size), p, size),
                     [MergePreset(DefaultRules, "gameOfLife") EXCEPT !.wrapping = w],
                     cs, TRUE)

NextPattern ==
    \/ generation < PatternGen /\ TimerFire
    \/ WorkerOnMessage
    \/ MainOnMessage

SpecPattern == InitPattern /\ [][NextPattern]_vars

\* A run with rule changes: the simulation runs on a drawn grid under the
\* default settings while the user changes rule settings.
InitRun ==
    \E live \in LiveSets([rows |-> Rows, cols |-> Cols], MaxLive) :
        InitWith([rows |-> Rows, cols |-> Cols],
                 DrawnGrid(live, [c \in live |-> 1], [rows |-> Rows, cols |-> Cols]),
                 DefaultRules, DefaultColorScheme, TRUE)

StepTimer == generation < StepGen /\ TimerFire

NextRun ==
    \/ StepTimer
    \/ WorkerOnMessage
    \/ MainOnMessage
    \/ ops < RunOps /\ \E kv \in RuleChangeInputs : HandleRuleChange(kv[1], kv[2])
    \/ ops < RunOps /\ \E v \in SpeedInputs : SetSpeed(v)

SpecRun == InitRun /\ [][NextRun]_vars

\* A timeout is pending and the run has steps left.
StepTimerEnabled == timerArmed /\ generation < StepGen

\* A step of the run in which the pending timeout fires: with a worker one
\* more request is posted, without one the generation is counted.
StepTimerTaken ==
    /\ StepTimerEnabled
    /\ IF hasWorker
       THEN Len(toWorker') = Len(toWorker) + 1
       ELSE generation' = generation + 1

\* A step of the run in which the worker takes its first request.
WorkerTaken == toWorker # << >> /\ toWorker' = Tail(toWorker)

\* The steps of the run named above are the steps of StepTimer and of
\* WorkerOnMessage.
StepTimerIsTaken == [][StepTimer <=> StepTimerTaken]_vars
WorkerOnMessageIsTaken == [][WorkerOnMessage <=> WorkerTaken]_vars

\* The same run when every pending timeout fires, the worker answers every
\* request and every answer is delivered: weak fairness of StepTimer, of
\* WorkerOnMessage and of MainOnMessage.  The first two are written out, with
\* ENABLED <<StepTimer>>_vars as StepTimerEnabled and
\* ENABLED <<WorkerOnMessage>>_vars as toWorker # <<>>.
SpecRunLive ==
    /\ SpecRun
    /\ ([]<>(~StepTimerEnabled) \/ []<><<StepTimerTaken>>_vars)
    /\ ([]<>(toWorker = << >>) \/ []<><<WorkerTaken>>_vars)
    /\ WF_vars(MainOnMessage)

\* The wrapped neighbourhood on grids of every small size: the simulation
\* runs with wrapping on a grid of at most one live cell.
TorusSizes == {[rows |-> h, cols |-> w] : h \in 1 .. TorusMax, w \in 1 .. TorusMax}

InitTorus ==
    \E size \in TorusSizes, nb \in {"moore", "vonNeumann"} :
        \E live \in LiveSets(size, 1) :
            InitWith(size, DrawnGrid(live, [c \in live |-> 1], size),
                     [DefaultRules EXCEPT !.neighborhood = nb, !.wrapping = TRUE],
                     DefaultColorScheme, TRUE)

NextTorus ==
    \/ generation < TorusGen /\ TimerFire
    \/ WorkerOnMessage
    \/ MainOnMessage

SpecTorus == InitTorus /\ [][NextTorus]_vars

\* Grids the canvas handlers find: empty, or with one live cell that was
\* stamped (changed false), drawn (changed true) or has lived for EditAge
\* steps.
EditGrids(size) ==
    {EmptyGrid(size)} \cup
    {[EmptyGrid(size) EXCEPT ![c[1]][c[2]] = cell] :
        c \in Cells(size),
        cell \in {[state |-> 1, age |-> 0, changed |-> FALSE],
                  [state |-> 1, age |-> 0, changed |-> TRUE],
                  [state |-> 1, age |-> EditAge, changed |-> TRUE]}}

\* The canvas handlers on their inputs: mouse events on such a grid, the
\* simulation running or paused, under one or five states.
InitEdit ==
    \E g \in EditGrids([rows |-> Rows, cols |-> Cols]),
       preset \in {"gameOfLife", "multicolor"}, running \in BOOLEAN :
        InitWith([rows |-> Rows, cols |-> Cols], g, MergePreset(DefaultRules, preset),
                 DefaultColorScheme, running)

NextEdit ==
    /\ ops < EditEvents
    /\ \/ \E c \in EditCoords(gridSize) : HandleCanvasClick(c[1], c[2])
       \/ \E c \in EditCoords(gridSize), pan \in BOOLEAN :
              HandleCanvasMouseDown(c[1], c[2], pan)
       \/ \E c \in EditCoords(gridSize) : HandleCanvasMouseMove(c[1], c[2])
       \/ HandleCanvasMouseUp

SpecEdit == InitEdit /\ [][NextEdit]_vars

\* A click gesture on the paused canvas: the mousedown, mouseup and click
\* events the browser sends for one press and release, in that order.
InitClick ==
    \E g \in EditGrids([rows |-> Rows, cols |-> Cols]),
       preset \in {"gameOfLife", "multicolor"} :
        InitWith([rows |-> Rows, cols |-> Cols], g, MergePreset(DefaultRules, preset),
                 DefaultColorScheme, FALSE)

NextClick ==
    \/ /\ gesture = << >>
       /\ ops = 0
       /\ \E c \in EditCoords(gridSize), pan \in BOOLEAN :
              HandleCanvasMouseDown(c[1], c[2], pan)
    \/ Len(gesture) = 1 /\ HandleCanvasMouseUp
    \/ Len(gesture) = 2 /\ \E c \in EditCoords(gridSize) : HandleCanvasClick(c[1], c[2])

SpecClick == InitClick /\ [][NextClick]_vars

\* Grid sizes for stamping, export and import: one with odd and one with
\* even numbers of rows and columns.
ExportSizes == {[rows |-> Rows, cols |-> Cols], [rows |-> Rows - 1, cols |-> Cols + 1]}

\* Patterns of the pattern buttons and of imported files, among them
\* patterns wider or higher than the grids they are stamped on.
StampInputs == {glider, rpentomino, toad, block} \cup ImportInputs

\* applyPattern on its inputs: one call on a grid of either size with at
\* most one live cell.
InitStamp ==
    \E size \in ExportSizes :
        \E g \in EditGrids(size) :
            InitWith(size, g, DefaultRules, DefaultColorScheme, FALSE)

NextStamp ==
    /\ lastEvent.op = "init"
    /\ \E p \in StampInputs : ApplyPattern(p)

SpecStamp == InitStamp /\ [][NextStamp]_vars

\* Export and import on their inputs: a drawn grid is exported, the grid is
\* reset, the exported file is imported and the grid is exported again.
InitExport ==
    \E size \in ExportSizes :
        \E g \in InputGrids(size) :
            InitWith(size, g, MergePreset(DefaultRules, "multicolor"),
                     DefaultColorScheme, FALSE)

NextExport ==
    \/ lastEvent.op = "init" /\ ExportCurrentPattern
    \/ lastEvent.op = "exportCurrentPattern" /\ Len(downloads) = 1 /\ ResetGrid
    \/ lastEvent.op = "resetGrid" /\ ImportPattern(downloads[1])
    \/ ReaderOnLoad
    \/ lastEvent.op = "applyPattern" /\ ExportCurrentPattern

SpecExport == InitExport /\ [][NextExport]_vars

\* randomFill on its inputs: one call with any density and any random
\* numbers, on a grid of dead or of aged cells, under one or five states.
InitFill ==
    \E g \in FillGrids([rows |-> FillRows, cols |-> FillCols]), preset \in {"gameOfLife", "multicolor"} :
        InitWith([rows |-> FillRows, cols |-> FillCols], g,
                 MergePreset(DefaultRules, preset), DefaultColorScheme, FALSE)

NextFill ==
    /\ lastEvent.op = "init"
    /\ \E density \in Densities, rnd \in [Cells(gridSize) -> {0, 9}],
          pick \in FillPicks(gridSize) :
           RandomFill(density, rnd, pick)

SpecFill == InitFill /\ [][NextFill]_vars

---------------------------------------------------------------------------
(* Definitions the properties below are stated with.  They describe a cell *)
(* and its neighbourhood by sets, not by the loops of the engine.          *)

LiveIn(g, c) == Gt0(g[c[1]][c[2]].state)

LiveCells(g, size) == {c \in Cells(size) : LiveIn(g, c)}

\* The cells of the current grid: none before initializeGrid's grid is
\* rendered.
GridCells == {c \in Cells(gridSize) : c[1] \in DOMAIN grid}

AllDead(g, size) == \A c \in Cells(size) : g[c[1]][c[2]].state = 0

Offsets(neighborhood) ==
    IF neighborhood = "moore"
    THEN ((-1 .. 1) \X (-1 .. 1)) \ {<<0, 0>>}
    ELSE {<<-1, 0>>, <<1, 0>>, <<0, -1>>, <<0, 1>>}

OffsetInside(c, d, size) == InGrid(<<c[1] + d[1], c[2] + d[2]>>, size)

\* The cell offset d of cell c leads to: on the torus when wrapping.
OffsetCell(c, d, size) ==
    << (c[1] + d[1] + size.rows) % size.rows, (c[2] + d[2] + size.cols) % size.cols >>

\* The offsets of cell c that count: all of them when wrapping, those that
\* stay inside the grid otherwise.
CountedOffsets(c, r, size) ==
    {d \in Offsets(r.neighborhood) : r.wrapping \/ OffsetInside(c, d, size)}

LiveOffsets(g, c, r, size) ==
    {d \in CountedOffsets(c, r, size) : LiveIn(g, OffsetCell(c, d, size))}

RECURSIVE SumOver(_, _, _, _)
SumOver(ds, g, c, size) ==
    IF ds = {} THEN 0
    ELSE LET d == CHOOSE e \in ds : TRUE
             t == OffsetCell(c, d, size)
         IN  g[t[1]][t[2]].state + SumOver(ds \ {d}, g, c, size)

RefNeighbors(g, c, r, size) == Cardinality(LiveOffsets(g, c, r, size))

RefStateSum(g, c, r, size) == SumOver(LiveOffsets(g, c, r, size), g, c, size)

\* What one step makes of cell c of the grid of request req, from that grid
\* alone.
RefCell(req, c) ==
    LET cell == req.grid[c[1]][c[2]]
        res == WorkerCellRule(cell, RefNeighbors(req.grid, c, req.rules, req.gridSize),
                              RefStateSum(req.grid, c, req.rules, req.gridSize),
                              req.rules, req.colorScheme)
    IN  IF res.cellChanged
        THEN [state |-> res.newState, age |-> res.newAge, changed |-> TRUE]
        ELSE [state |-> JsonValue(cell.state), age |-> cell.age, changed |-> FALSE]

Stepped == lastStep.path # "none"

---------------------------------------------------------------------------
(* C1.  Updates are simultaneous: the state and age a step gives a cell    *)
(* are those of the cell-wise transition applied to the grid the step was  *)
(* requested for, whatever the step has already written for other cells.   *)

C1_Simultaneous ==
    Stepped =>
        \A c \in Cells(gridSize) :
            /\ grid[c[1]][c[2]].state = RefCell(lastStep.req, c).state
            /\ grid[c[1]][c[2]].age = RefCell(lastStep.req, c).age

\* A step whose result differs from what updating the cells one after the
\* other in place would give.
C1_Witness ==
    /\ Stepped
    /\ LET req == lastStep.req
           seq == WorkerLoopInPlace(0, req.grid, JsonCopy(req.grid, req.gridSize), << >>,
                                    req.rules, req.gridSize, req.colorScheme)
       IN  \E c \in Cells(gridSize) :
               seq.newGrid[c[1]][c[2]].state # grid[c[1]][c[2]].state

---------------------------------------------------------------------------
(* C2.  Every cell of the current grid has 0 <= state <= rules.states and  *)
(* age >= 0.  The code does not keep this: neither a change of             *)
(* rules.states nor applyPattern clamps the states of the grid.            *)

C2_StateInRange ==
    \A c \in GridCells :
        /\ IsNum(grid[c[1]][c[2]].state)
        /\ 0 <= grid[c[1]][c[2]].state
        /\ grid[c[1]][c[2]].state <= rules.states
        /\ grid[c[1]][c[2]].age >= 0

---------------------------------------------------------------------------
(* C3.  Conway equivalence: under survive 2-3, birth 3, one state, the     *)
(* Moore neighbourhood and no wrapping, the glider stamped on an empty     *)
(* grid has after 4 steps the same live cells moved one row down and one   *)
(* column right, and no others.  This holds with the trail effect off      *)
(* (C3_Glider); with it on, dying cells stay live (C3_GliderAnyTrail).     *)

Shifted(cs, dy, dx) == {<<c[1] + dy, c[2] + dx>> : c \in cs}

GliderStart ==
    /\ hist[1] = StampPattern(EmptyGrid(gridSize), glider, gridSize)
    /\ rules = [MergePreset(DefaultRules, "gameOfLife") EXCEPT !.wrapping = FALSE]
    /\ Len(hist) >= 5

C3_Glider ==
    (GliderStart /\ ~colorScheme.trailEffect) =>
        LiveCells(hist[5], gridSize) = Shifted(LiveCells(hist[1], gridSize), 1, 1)

C3_GliderAnyTrail ==
    GliderStart =>
        LiveCells(hist[5], gridSize) = Shifted(LiveCells(hist[1], gridSize), 1, 1)

C3_Witness ==
    /\ GliderStart
    /\ ~colorScheme.trailEffect
    /\ Len(hist) = 5
    /\ Cardinality(LiveCells(grid, gridSize)) = 5
    /\ grid = hist[5]

---------------------------------------------------------------------------
(* C4.  Stasis: a 2 x 2 block under Conway's rules is a still life.  The   *)
(* state of every cell of the block and of its border is the same after    *)
(* one and after two steps, but the grids are not equal: each step adds    *)
(* one to the age of the four live cells (C4_BlockStates holds,            *)
(* C4_BlockEqual does not).                                                *)

BlockStart ==
    /\ hist[1] = StampPattern(EmptyGrid(gridSize), block, gridSize)
    /\ Len(hist) >= 3

\* The block and its one-cell border.
BlockRegion ==
    LET a == PatternAnchor(block, gridSize)
    IN  {c \in Cells(gridSize) :
            /\ c[1] >= a.y - 1 /\ c[1] <= a.y + 2
            /\ c[2] >= a.x - 1 /\ c[2] <= a.x + 2}

C4_BlockStates ==
    BlockStart =>
        \A c \in BlockRegion, k \in 2 .. 3 :
            /\ hist[k][c[1]][c[2]].state = hist[1][c[1]][c[2]].state
            /\ hist[k][c[1]][c[2]].age =
                   IF LiveIn(hist[1], c) THEN k - 1 ELSE 0

C4_BlockEqual ==
    BlockStart =>
        \A c \in BlockRegion, k \in 2 .. 3 :
            /\ hist[k][c[1]][c[2]].state = hist[1][c[1]][c[2]].state
            /\ hist[k][c[1]][c[2]].age = hist[1][c[1]][c[2]].age

C4_Witness ==
    /\ BlockStart
    /\ Len(hist) = 3
    /\ Cardinality(LiveCells(grid, gridSize)) = 4
    /\ Cardinality(BlockRegion) = 16

---------------------------------------------------------------------------
(* C5.  Trail decay: with the trail effect on and trailLength = 3, a cell  *)
(* that dies at tick T (its neighbour count first falls outside the        *)
(* survive range) is non-zero at ticks T+1 .. T+3 and 0 at tick T+4,       *)
(* whatever its age and whatever its neighbours do.  The code counts the   *)
(* decay on the cell's age: an old cell is cleared at once, and a remnant  *)
(* whose count returns to the survive range lives on.                      *)

OutsideSurvive(g, c) == ~InSurviveRange(RefNeighbors(g, c, rules, gridSize), rules)

DiesAt(T, c) ==
    /\ LiveIn(hist[T], c)
    /\ OutsideSurvive(hist[T], c)
    /\ T = 1 \/ ~LiveIn(hist[T - 1], c) \/ ~OutsideSurvive(hist[T - 1], c)

C5_TrailDecay ==
    (colorScheme.trailEffect /\ colorScheme.trailLength = 3) =>
        \A T \in 1 .. Len(hist), c \in Cells(gridSize) :
            DiesAt(T, c) =>
                \A j \in 1 .. 4 :
                    T + j <= Len(hist) =>
                        IF j <= 3
                        THEN LiveIn(hist[T + j], c)
                        ELSE hist[T + j][c[1]][c[2]].state = 0

---------------------------------------------------------------------------
(* C6.  Birth averaging: when states > 1, a dead cell with n >= 1 live     *)
(* neighbours, n in the birth range, is born with age 0 and state          *)
(* clamp(round(sum / n), 1, states), sum being the sum of the states of    *)
(* its live neighbours and round rounding halves up.                       *)

\* q = round(sum / n), halves up
IsRound(q, sum, n) == 2 * n * q <= 2 * sum + n /\ 2 * sum + n < 2 * n * (q + 1)

Clamp(q, lo, hi) == IF q < lo THEN lo ELSE IF q > hi THEN hi ELSE q

C6_BirthAverage ==
    Stepped =>
        \A c \in Cells(gridSize) :
            LET req == lastStep.req
                r == req.rules
                n == RefNeighbors(req.grid, c, r, req.gridSize)
                sum == RefStateSum(req.grid, c, r, req.gridSize)
            IN  (/\ ~LiveIn(req.grid, c)
                 /\ r.states > 1
                 /\ n >= 1
                 /\ n >= r.birthMin /\ n <= r.birthMax) =>
                    /\ grid[c[1]][c[2]].age = 0
                    /\ \E q \in 0 .. sum :
                           /\ IsRound(q, sum, n)
                           /\ grid[c[1]][c[2]].state = Clamp(q, 1, r.states)

\* A cell born with state 2 from two live neighbours of states 1 and 3.
C6_Witness ==
    /\ Stepped
    /\ lastStep.req.rules.states = 5
    /\ \E c \in Cells(gridSize) :
           LET req == lastStep.req
               ds == LiveOffsets(req.grid, c, req.rules, req.gridSize)
           IN  /\ ~LiveIn(req.grid, c)
               /\ Cardinality(ds) = 2
               /\ {req.grid[OffsetCell(c, d, req.gridSize)[1]]
                           [OffsetCell(c, d, req.gridSize)[2]].state : d \in ds} = {1, 3}
               /\ grid[c[1]][c[2]].state = 2
               /\ grid[c[1]][c[2]].age = 0

---------------------------------------------------------------------------
(* C7.  Zero-neighbour birth: when birthMin = 0, states > 1 and a dead     *)
(* cell has no live neighbour, the birth gives the cell state 1.  The      *)
(* code divides by the neighbour count: Math.round(0 / 0) is NaN, and the  *)
(* clamp keeps it.                                                         *)

C7_ZeroNeighbourBirth ==
    Stepped =>
        \A c \in Cells(gridSize) :
            LET req == lastStep.req
                r == req.rules
            IN  (/\ req.grid[c[1]][c[2]].state = 0
                 /\ r.states > 1
                 /\ r.birthMin = 0
                 /\ r.birthMax >= 0
                 /\ RefNeighbors(req.grid, c, r, req.gridSize) = 0) =>
                    grid[c[1]][c[2]].state = 1

---------------------------------------------------------------------------
(* C8.  Idempotent no-op: from an all-dead grid with birthMin > 0, every   *)
(* step yields an all-dead grid, flags no cell as changed and reports an   *)
(* empty list of changed cells.                                            *)

C8_AllDeadStays ==
    (AllDead(hist[1], gridSize) /\ rules.birthMin > 0) =>
        /\ AllDead(grid, gridSize)
        /\ Stepped =>
               /\ \A c \in Cells(gridSize) : ~grid[c[1]][c[2]].changed
               /\ lastStep.changedCells = << >>

C8_Witness ==
    /\ AllDead(hist[1], gridSize)
    /\ rules.birthMin > 0
    /\ lastStep.path = "worker"
    /\ Len(hist) = StepGen + 1
    /\ grid = hist[Len(hist)]

---------------------------------------------------------------------------
(* C9.  Bounds enforcement: a canvas edit (click, mouse down, mouse move)   *)
(* addressed at coordinates outside the grid raises an OutOfBounds error   *)
(* and leaves every cell of the grid unchanged.  The handlers leave the    *)
(* grid unchanged but raise no such error: they return without a word, and *)
(* a mouse move while panning ends in a ReferenceError.                    *)

EditOps == {"click", "mousedown", "mousemove"}

OutOfBoundsEdit ==
    /\ lastEvent.op \in EditOps
    /\ ~InGrid(<<lastEvent.y, lastEvent.x>>, gridSize)

C9_OutOfBoundsRaised ==
    OutOfBoundsEdit => (grid = pre /\ lastEvent.thrown = "OutOfBounds")

---------------------------------------------------------------------------
(* C10.  Wrapping symmetry: with wrapping on, a live cell of the last row  *)
(* is a neighbour of the cell of the first row in its column, and a live   *)
(* cell of the last column of the cell of the first column in its row, and *)
(* conversely; with wrapping off it is not.  For every cell the wrapped    *)
(* count minus the clipped count is the number of live cells reached       *)
(* through offsets that leave the grid, and the engine reads no cell       *)
(* outside the grid.                                                       *)

SeqRange(sq) == {sq[k] : k \in 1 .. Len(sq)}

Opposite(c, size) ==
    {o \in {<<size.rows - 1, c[2]>>, <<0, c[2]>>, <<c[1], size.cols - 1>>, <<c[1], 0>>} :
        \/ c[1] = 0 /\ o = <<size.rows - 1, c[2]>>
        \/ c[1] = size.rows - 1 /\ o = <<0, c[2]>>
        \/ c[2] = 0 /\ o = <<c[1], size.cols - 1>>
        \/ c[2] = size.cols - 1 /\ o = <<c[1], 0>>}

C10_Wrapping ==
    \A c \in Cells(gridSize) :
        LET wrapped == NeighbourCells(c[1], c[2], rules.neighborhood, TRUE, gridSize)
            clipped == NeighbourCells(c[1], c[2], rules.neighborhood, FALSE, gridSize)
            nw == CountNeighbors(grid, c[1], c[2], [rules EXCEPT !.wrapping = TRUE],
                                 gridSize).neighbors
            nc == CountNeighbors(grid, c[1], c[2], [rules EXCEPT !.wrapping = FALSE],
                                 gridSize).neighbors
        IN  /\ \A t \in SeqRange(wrapped) \cup SeqRange(clipped) : InGrid(t, gridSize)
            /\ \A o \in Opposite(c, gridSize) :
                   o \in SeqRange(wrapped) /\ o \notin SeqRange(clipped)
            /\ nw - nc = Cardinality({d \in Offsets(rules.neighborhood) :
                                         /\ ~OffsetInside(c, d, gridSize)
                                         /\ LiveIn(grid, OffsetCell(c, d, gridSize))})

\* A cell of the first row born of a live cell of the last row alone: with
\* wrapping the step counted it, the clipped count is outside the birth range.
C10_Witness ==
    /\ Stepped
    /\ lastStep.req.rules.wrapping
    /\ \E x \in ColIdx(gridSize) :
           LET req == lastStep.req
               clippedRules == [req.rules EXCEPT !.wrapping = FALSE]
           IN  /\ LiveIn(req.grid, <<gridSize.rows - 1, x>>)
               /\ ~LiveIn(req.grid, <<0, x>>)
               /\ LiveIn(grid, <<0, x>>)
               /\ ~InBirthRange(CountNeighbors(req.grid, 0, x, clippedRules,
                                               req.gridSize).neighbors, req.rules)

---------------------------------------------------------------------------
(* C11.  A step result that replaces the current grid was computed from    *)
(* the grid it replaces, so that no edit, stamp, fill or reset made        *)
(* between the request and the arrival of the result is lost.  The code    *)
(* applies the worker's answer to whatever the grid is by then.            *)

StepApplied == lastEvent.op = "onmessage" \/ (lastEvent.op = "timer" /\ ~hasWorker)

C11_ResultFromReplacedGrid ==
    StepApplied => lastStep.req.grid = pre

---------------------------------------------------------------------------
(* C12.  Drawing is only possible while paused: while isRunning is true no *)
(* click, mouse-down or mouse-move changes a cell.  handleCanvasClick does *)
(* not test isRunning.                                                     *)

C12_NoDrawingWhileRunning ==
    (lastEvent.op \in EditOps /\ isRunning) => grid = pre

---------------------------------------------------------------------------
(* C13.  Pause stops the simulation: while isRunning is false and the user *)
(* performs no operation, the grid and the generation counter do not       *)
(* change.  The code applies an answer of the worker that arrives after    *)
(* the pause.                                                              *)

C13_PauseStops ==
    [][(~isRunning /\ ops' = ops) => (grid' = grid /\ generation' = generation)]_vars

---------------------------------------------------------------------------
(* C14.  Reset clears the simulation: after resetGrid the simulation is    *)
(* stopped, every cell is dead with age 0 and not changed, and generation  *)
(* is 0, until the next user operation.  The code applies an answer of the *)
(* worker to a request that was pending when Reset was pressed.            *)

Cleared ==
    /\ ~isRunning
    /\ grid = EmptyGrid(gridSize)
    /\ generation = 0

C14_ResetClears ==
    [][(/\ \/ lastEvent'.op = "resetGrid"
           \/ lastEvent.op = "resetGrid" /\ Cleared
        /\ \/ lastEvent'.op = "resetGrid"
           \/ ops' = ops) => Cleared']_vars

---------------------------------------------------------------------------
(* C15.  Changed tracking is exact: after every step a cell is flagged     *)
(* changed exactly if its state or its age differs from the one it had in  *)
(* the grid the step read, and the worker's changed-cell list holds the    *)
(* flagged cells, each once, in row-major order.  A dead cell whose state  *)
(* is NaN and which is not born is copied as null and not flagged.         *)

\* a !== b
Differs(a, b) == a = NaN \/ b = NaN \/ a # b

\* The cells of g flagged changed, from cell i = y * cols + x onwards in
\* row-major order.
RECURSIVE FlaggedFrom(_, _, _)
FlaggedFrom(i, g, size) ==
    IF i >= size.rows * size.cols THEN << >>
    ELSE LET y == i \div size.cols
             x == i % size.cols
         IN  (IF g[y][x].changed THEN << [x |-> x, y |-> y] >> ELSE << >>)
                 \o FlaggedFrom(i + 1, g, size)

ExactlyTracked(e) ==
    /\ \A c \in Cells(e.req.gridSize) :
           e.newGrid[c[1]][c[2]].changed <=>
               \/ Differs(e.newGrid[c[1]][c[2]].state, e.req.grid[c[1]][c[2]].state)
               \/ Differs(e.newGrid[c[1]][c[2]].age, e.req.grid[c[1]][c[2]].age)
    /\ e.path = "worker" => e.changedCells = FlaggedFrom(0, e.newGrid, e.req.gridSize)

C15_ChangedExact ==
    \A k \in 1 .. Len(stepLog) : ExactlyTracked(stepLog[k])

---------------------------------------------------------------------------
(* C16.  Step purity: a step never modifies the grid it reads.  After the  *)
(* step every cell object of the input grid holds the state, age and       *)
(* changed value it held before, and the output grid shares no cell object *)
(* with the input: a later write to a cell of either is not visible in the *)
(* other.  The objects the step leaves as newGrid hold the grid the        *)
(* program takes as the result of the step.                                *)

\* A later write to the cell object o: its state becomes another value.
WriteLater(heap, o) == [heap EXCEPT ![o].state = @ + 1]

PureStep(e) ==
    LET o == StepObjects(e.req, e.path)
        size == e.req.gridSize
        input == Deref(o.refs, o.heap, size)
        output == Deref(o.newRefs, o.heap, size)
    IN  /\ \A c \in Cells(size) :
               /\ input[c[1]][c[2]].state = e.req.grid[c[1]][c[2]].state
               /\ input[c[1]][c[2]].age = e.req.grid[c[1]][c[2]].age
               /\ input[c[1]][c[2]].changed = e.req.grid[c[1]][c[2]].changed
        /\ \A c, d \in Cells(size) : o.newRefs[c[1]][c[2]] # o.refs[d[1]][d[2]]
        /\ \A c \in Cells(size) :
               /\ Deref(o.refs, WriteLater(o.heap, o.newRefs[c[1]][c[2]]), size) = input
               /\ Deref(o.newRefs, WriteLater(o.heap, o.refs[c[1]][c[2]]), size) = output
        /\ output = e.newGrid

C16_StepPure == \A k \in 1 .. Len(stepLog) : PureStep(stepLog[k])

\* A fallback step that wrote a cell: the objects of newGrid hold another
\* state and age than the objects of the grid read.
C16_Witness ==
    /\ stepLog # << >>
    /\ LET e == stepLog[Len(stepLog)]
           o == StepObjects(e.req, e.path)
       IN  /\ e.path = "fallback"
           /\ \E c \in Cells(gridSize) :
                  /\ o.heap[o.newRefs[c[1]][c[2]]].state # o.heap[o.refs[c[1]][c[2]]].state
                  /\ o.heap[o.newRefs[c[1]][c[2]]].age # o.heap[o.refs[c[1]][c[2]]].age
                  /\ o.heap[o.refs[c[1]][c[2]]] = e.req.grid[c[1]][c[2]]

---------------------------------------------------------------------------
(* C17.  Determinism: two steps run on equal grids with equal rule and     *)
(* trail configurations produce equal output grids (state, age and changed *)
(* of every cell) and equal changed-cell lists.  The worker may be handed  *)
(* one request twice, the second time after the answer to the first was    *)
(* applied and counted: both answers are the same.                         *)

---------------------------------------------------------------------------
(* C18.  Pattern stamping clamps states: after applyPattern, every cell a  *)
(* pattern cell landed on has the pattern's value clamped into             *)
(* [0, rules.states].  applyPattern writes the value as it is.             *)

\* The pattern value that lands on cell c, for the cells of the footprint.
Footprint(p, size) ==
    {c \in Cells(size) :
        /\ c[1] - PatternAnchor(p, size).y \in 0 .. Len(p) - 1
        /\ c[2] - PatternAnchor(p, size).x \in 0 .. Len(p[1]) - 1}

PatternValue(p, c, size) ==
    p[c[1] - PatternAnchor(p, size).y + 1][c[2] - PatternAnchor(p, size).x + 1]

C18_StampClamps ==
    lastEvent.op = "applyPattern" =>
        \A c \in Footprint(lastEvent.arg, gridSize) :
            grid[c[1]][c[2]].state =
                Clamp(PatternValue(lastEvent.arg, c, gridSize), 0, rules.states)

---------------------------------------------------------------------------
(* C19.  Preset application is a merge: applyRulePreset(name) sets         *)
(* surviveMin, surviveMax, birthMin, birthMax and states to the preset's   *)
(* values and leaves neighborhood, wrapping, the colour and trail settings *)
(* and the grid as they are; the gameOfLife preset is survive 2-3, birth   *)
(* 3-3, states 1.                                                          *)

PresetFields == {"surviveMin", "surviveMax", "birthMin", "birthMax", "states"}

C19_PresetMerges ==
    [][(lastEvent'.op = "applyRulePreset" /\ ops' = ops + 1) =>
          /\ \A f \in PresetFields : rules'[f] = rulePresets[lastEvent'.arg][f]
          /\ rules'.neighborhood = rules.neighborhood
          /\ rules'.wrapping = rules.wrapping
          /\ DOMAIN rules' = DOMAIN rules
          /\ colorScheme' = colorScheme
          /\ grid' = grid
          /\ rulePresets.gameOfLife =
                 [surviveMin |-> 2, surviveMax |-> 3, birthMin |-> 3, birthMax |-> 3,
                  states |-> 1]]_vars

\* The multicolor preset applied to rules whose neighbourhood is not the
\* default one.
C19_Witness ==
    /\ lastEvent.op = "applyRulePreset"
    /\ lastEvent.arg = "multicolor"
    /\ rules.states = 5
    /\ rules.neighborhood = "vonNeumann"

---------------------------------------------------------------------------
(* C20.  Random fill: after randomFill(density) every cell has age 0 and a *)
(* state in [0, rules.states], a live cell one in [1, rules.states]; a     *)
(* density <= 0 gives an all-dead grid and a density >= 1 an all-live one, *)
(* as if the density were clamped to [0, 1], and no density is rejected.   *)

C20_RandomFill ==
    lastEvent.op = "randomFill" =>
        LET a == lastEvent.arg
        IN  /\ lastEvent.thrown = "none"
            /\ \A c \in Cells(gridSize) :
                   /\ grid[c[1]][c[2]].age = 0
                   /\ grid[c[1]][c[2]].state \in 0 .. rules.states
                   /\ LiveIn(grid, c) <=> a.rnd[c] < Clamp(a.density, 0, 10)
            /\ a.density <= 0 => AllDead(grid, gridSize)
            /\ a.density >= 10 => LiveCells(grid, gridSize) = Cells(gridSize)

\* A density above 1 on a grid of aged cells under five states: all cells
\* live, with the lowest and the highest state among them.
C20_Witness ==
    /\ lastEvent.op = "randomFill"
    /\ lastEvent.arg.density > 10
    /\ rules.states = 5
    /\ \A c \in Cells(gridSize) : pre[c[1]][c[2]].age > 0
    /\ LiveCells(grid, gridSize) = Cells(gridSize)
    /\ {grid[c[1]][c[2]].state : c \in Cells(gridSize)} = {1, 5}

---------------------------------------------------------------------------
(* C21.  Export extracts the minimal bounding box: for a grid with a live  *)
(* cell the exported matrix has maxRow - minRow + 1 rows and maxCol -      *)
(* minCol + 1 columns over the live cells, entry [i][j] is the state of    *)
(* cell (minRow + i, minCol + j), and its first and last row and column    *)
(* each hold a nonzero entry; for a grid without live cell it has no rows. *)

SetMin(S) == CHOOSE v \in S : \A w \in S : v <= w
SetMax(S) == CHOOSE v \in S : \A w \in S : v >= w

\* m is the bounding box of the live cells of g.
IsBoundingBox(m, g, size) ==
    LET live == LiveCells(g, size)
        minRow == SetMin({c[1] : c \in live})
        maxRow == SetMax({c[1] : c \in live})
        minCol == SetMin({c[2] : c \in live})
        maxCol == SetMax({c[2] : c \in live})
        h == maxRow - minRow + 1
        w == maxCol - minCol + 1
    IN  /\ Len(m) = h
        /\ \A i \in 1 .. h :
               /\ Len(m[i]) = w
               /\ \A j \in 1 .. w : m[i][j] = g[minRow + i - 1][minCol + j - 1].state
        /\ \E j \in 1 .. w : m[1][j] # 0
        /\ \E j \in 1 .. w : m[h][j] # 0
        /\ \E i \in 1 .. h : m[i][1] # 0
        /\ \E i \in 1 .. h : m[i][w] # 0

C21_ExportBoundingBox ==
    lastEvent.op = "exportCurrentPattern" =>
        IF LiveCells(grid, gridSize) = {}
        THEN lastEvent.arg = << >>
        ELSE IsBoundingBox(lastEvent.arg, grid, gridSize)

\* An export of two live cells away from row 0 and column 0, with a dead
\* cell inside their box.
C21_Witness ==
    /\ lastEvent.op = "exportCurrentPattern"
    /\ Cardinality(LiveCells(grid, gridSize)) = 2
    /\ \A c \in LiveCells(grid, gridSize) : c[1] > 0 /\ c[2] > 0
    /\ Len(lastEvent.arg) = 2
    /\ Len(lastEvent.arg[1]) = 2
    /\ lastEvent.arg[1][1] = 0

---------------------------------------------------------------------------
(* C22.  Export / import round trip: for a grid with a live cell, the      *)
(* exported matrix imported into an all-dead grid of the same size and     *)
(* exported again gives the same matrix.                                   *)

C22_RoundTrip ==
    (/\ lastEvent.op = "exportCurrentPattern"
     /\ Len(downloads) = 2) => downloads[2] = downloads[1]

\* The second export, of a pattern as high as the grid and one column
\* wide, with two states, in a grid of an even number of columns.
C22_Witness ==
    /\ lastEvent.op = "exportCurrentPattern"
    /\ Len(downloads) = 2
    /\ Len(downloads[2]) = gridSize.rows
    /\ Len(downloads[2][1]) = 1
    /\ downloads[2][1][1] # downloads[2][2][1]
    /\ gridSize.cols % 2 = 0
    /\ Cardinality(LiveCells(grid, gridSize)) = 2

---------------------------------------------------------------------------
(* C23.  Toroidal topology: with wrapping, for every cell of a grid of at  *)
(* least 3 rows and 3 columns the neighbour enumeration yields exactly     *)
(* |offsets| neighbours (8 for Moore, 4 for Von Neumann): pairwise         *)
(* distinct cells inside the grid, none of them the cell itself.  (As      *)
(* stated, for every grid of at least 1 row and 1 column, it fails: on a   *)
(* grid with fewer than 3 rows or columns wrapped offsets coincide.)       *)

\* The cells a step enumerates for cell c are a full neighbour set.
FullNeighbourSet(req, c) ==
    LET ns == NeighbourCells(c[1], c[2], req.rules.neighborhood, req.rules.wrapping,
                             req.gridSize)
        n == Len(Directions(req.rules.neighborhood))
    IN  /\ n = IF req.rules.neighborhood = "moore" THEN 8 ELSE 4
        /\ Len(ns) = n
        /\ \A k \in 1 .. Len(ns) : InGrid(ns[k], req.gridSize) /\ ns[k] # c
        /\ \A k, l \in 1 .. Len(ns) : k # l => ns[k] # ns[l]

C23_TorusFrom3 ==
    (/\ StepApplied
     /\ lastStep.req.rules.wrapping
     /\ lastStep.req.gridSize.rows >= 3
     /\ lastStep.req.gridSize.cols >= 3)
        => \A c \in Cells(lastStep.req.gridSize) : FullNeighbourSet(lastStep.req, c)

C23_TorusAnySize ==
    (StepApplied /\ lastStep.req.rules.wrapping)
        => \A c \in Cells(lastStep.req.gridSize) : FullNeighbourSet(lastStep.req, c)

\* A wrapped Moore step on a grid of 3 rows and more columns than rows, in
\* which the dead corner opposite the live corner counted it.
C23_Witness ==
    /\ StepApplied
    /\ lastStep.req.rules.wrapping
    /\ lastStep.req.rules.neighborhood = "moore"
    /\ lastStep.req.gridSize.rows = 3
    /\ lastStep.req.gridSize.cols > 3
    /\ Gt0(lastStep.req.grid[0][0].state)
    /\ CountNeighbors(lastStep.req.grid, 2, lastStep.req.gridSize.cols - 1,
                      lastStep.req.rules, lastStep.req.gridSize).neighbors = 1

---------------------------------------------------------------------------
(* Definitions for the transitions of single cells: entry e of the step    *)
(* log, cell c.                                                            *)

OldCell(e, c) == e.req.grid[c[1]][c[2]]
NewCell(e, c) == e.newGrid[c[1]][c[2]]
Count(e, c) == RefNeighbors(e.req.grid, c, e.req.rules, e.req.gridSize)

Survives(e, c) ==
    /\ Gt0(OldCell(e, c).state)
    /\ Count(e, c) \in e.req.rules.surviveMin .. e.req.rules.surviveMax

Dies(e, c) ==
    /\ Gt0(OldCell(e, c).state)
    /\ Count(e, c) \notin e.req.rules.surviveMin .. e.req.rules.surviveMax

\* The cell the death branch leaves.
DeathResult(e, c) ==
    IF e.req.colorScheme.trailEffect
           /\ OldCell(e, c).age + 1 <= e.req.colorScheme.trailLength
    THEN [state |-> OldCell(e, c).state, age |-> OldCell(e, c).age + 1, changed |-> TRUE]
    ELSE [state |-> 0, age |-> 0, changed |-> TRUE]

---------------------------------------------------------------------------
(* C24.  Survival transition: a live cell whose neighbour count lies in    *)
(* [surviveMin, surviveMax] gets age = old age + 1 and changed = true; its *)
(* state becomes min(old state + 1, states) when states > 1 and stays when *)
(* states = 1; a cell at the maximum state keeps it while its age advances.*)

C24_Survival ==
    \A k \in 1 .. Len(stepLog) :
        \A c \in Cells(stepLog[k].req.gridSize) :
            LET e == stepLog[k]
                states == e.req.rules.states
            IN  Survives(e, c) =>
                    /\ NewCell(e, c).age = OldCell(e, c).age + 1
                    /\ NewCell(e, c).changed
                    /\ states = 1 => NewCell(e, c).state = OldCell(e, c).state
                    /\ (states > 1 /\ OldCell(e, c).state + 1 <= states)
                           => NewCell(e, c).state = OldCell(e, c).state + 1
                    /\ (states > 1 /\ OldCell(e, c).state + 1 > states)
                           => NewCell(e, c).state = states

\* A surviving cell already at the maximum of several states.
C24_Witness ==
    \E k \in 1 .. Len(stepLog) :
        \E c \in Cells(stepLog[k].req.gridSize) :
            /\ Survives(stepLog[k], c)
            /\ stepLog[k].req.rules.states > 1
            /\ OldCell(stepLog[k], c).state = stepLog[k].req.rules.states
            /\ NewCell(stepLog[k], c).state = stepLog[k].req.rules.states
            /\ NewCell(stepLog[k], c).age = OldCell(stepLog[k], c).age + 1

---------------------------------------------------------------------------
(* C25.  Trail death transition: with the trail effect, a live cell whose  *)
(* neighbour count lies outside the survive range gets age' = age + 1; if  *)
(* age' > trailLength it becomes state 0, age 0, otherwise it keeps its    *)
(* state with age age'; without the trail effect it becomes state 0, age   *)
(* 0; in every case changed = true.                                        *)

C25_TrailDeath ==
    \A k \in 1 .. Len(stepLog) :
        \A c \in Cells(stepLog[k].req.gridSize) :
            Dies(stepLog[k], c) => NewCell(stepLog[k], c) = DeathResult(stepLog[k], c)

\* A cell kept as a trail by the first step and cleared by the second.
C25_Witness ==
    /\ Len(stepLog) = 2
    /\ stepLog[2].req.colorScheme.trailEffect
    /\ \E c \in Cells(gridSize) :
           /\ Dies(stepLog[1], c)
           /\ NewCell(stepLog[1], c).state = OldCell(stepLog[1], c).state
           /\ NewCell(stepLog[1], c).age = stepLog[1].req.colorScheme.trailLength
           /\ OldCell(stepLog[2], c) = NewCell(stepLog[1], c)
           /\ Dies(stepLog[2], c)
           /\ NewCell(stepLog[2], c) = [state |-> 0, age |-> 0, changed |-> TRUE]

---------------------------------------------------------------------------
(* C26.  A dead cell whose neighbour count lies outside [birthMin,         *)
(* birthMax] is left as it was by a step (state 0, age unchanged), and its *)
(* changed flag in the new grid is false even if it was true before.       *)

C26_DeadStays ==
    \A k \in 1 .. Len(stepLog) :
        \A c \in Cells(stepLog[k].req.gridSize) :
            LET e == stepLog[k]
            IN  (/\ OldCell(e, c).state = 0
                 /\ Count(e, c) \notin e.req.rules.birthMin .. e.req.rules.birthMax)
                    => NewCell(e, c) = [state |-> 0, age |-> OldCell(e, c).age,
                                        changed |-> FALSE]

\* A dead cell flagged changed before the step, with live neighbours
\* outside the birth range.
C26_Witness ==
    \E k \in 1 .. Len(stepLog) :
        \E c \in Cells(stepLog[k].req.gridSize) :
            /\ OldCell(stepLog[k], c).state = 0
            /\ OldCell(stepLog[k], c).changed
            /\ Count(stepLog[k], c) > stepLog[k].req.rules.birthMax
            /\ stepLog[k].req.rules.birthMin <= stepLog[k].req.rules.birthMax
            /\ ~NewCell(stepLog[k], c).changed

---------------------------------------------------------------------------
(* C27.  Malformed ranges are inert: with surviveMin > surviveMax every    *)
(* live cell takes the death branch at every step, with birthMin >         *)
(* birthMax no dead cell is born; the step completes and gives a full grid *)
(* of the same dimensions.                                                 *)

C27_MalformedRanges ==
    \A k \in 1 .. Len(stepLog) :
        LET e == stepLog[k]
            r == e.req.rules
        IN  /\ r.surviveMin > r.surviveMax =>
                \A c \in Cells(e.req.gridSize) :
                    Gt0(OldCell(e, c).state) => NewCell(e, c) = DeathResult(e, c)
            /\ r.birthMin > r.birthMax =>
                \A c \in Cells(e.req.gridSize) :
                    OldCell(e, c).state = 0 => NewCell(e, c).state = 0
            /\ (r.surviveMin > r.surviveMax \/ r.birthMin > r.birthMax) =>
                /\ DOMAIN e.newGrid = RowIdx(e.req.gridSize)
                /\ \A y \in RowIdx(e.req.gridSize) :
                       DOMAIN e.newGrid[y] = ColIdx(e.req.gridSize)

\* A step under survive 1 .. 0 and birth 2 .. 1 in which a live cell with
\* 1 live neighbour dies and a dead cell with 2 live neighbours stays dead.
C27_Witness ==
    \E k \in 1 .. Len(stepLog) :
        LET e == stepLog[k]
        IN  /\ e.req.rules.surviveMin = 1 /\ e.req.rules.surviveMax = 0
            /\ e.req.rules.birthMin = 2 /\ e.req.rules.birthMax = 1
            /\ \E c \in Cells(e.req.gridSize) :
                   /\ Gt0(OldCell(e, c).state)
                   /\ Count(e, c) = 1
                   /\ NewCell(e, c).state = 0
            /\ \E c \in Cells(e.req.gridSize) :
                   /\ OldCell(e, c).state = 0
                   /\ Count(e, c) = 2
                   /\ NewCell(e, c).state = 0

---------------------------------------------------------------------------
(* C29.  An in-bounds single-cell edit changes only the addressed cell: it *)
(* sets that cell's state (click: (state + 1) mod (states + 1); mouse-     *)
(* down: 1 if the cell was dead, else 0; mouse-move: the draw mode),       *)
(* resets its age to 0 and sets changed = true; every other cell, the      *)
(* generation counter and the rules are unchanged.                         *)

\* The step is a canvas handler that reaches its write to an in-bounds cell.
EditStep ==
    /\ ops' = ops + 1
    /\ lastEvent'.op \in EditOps
    /\ InGrid(<<lastEvent'.y, lastEvent'.x>>, gridSize)
    /\ lastEvent'.op = "click" => ~isPanning
    /\ lastEvent'.op = "mousedown" => (lastEvent'.arg = FALSE /\ ~isRunning)
    /\ lastEvent'.op = "mousemove" => (~isPanning /\ isDrawing /\ ~isRunning)

\* The state the edit is to give a cell of state s.
EditState(s) ==
    IF lastEvent'.op = "click" THEN (s + 1) % (rules.states + 1)
    ELSE IF lastEvent'.op = "mousedown" THEN (IF s = 0 THEN 1 ELSE 0)
    ELSE (IF drawMode # 0 THEN 1 ELSE 0)

EditEffect ==
    LET y == lastEvent'.y
        x == lastEvent'.x
    IN  /\ grid' = [grid EXCEPT ![y][x] = [state |-> EditState(grid[y][x].state),
                                           age |-> 0, changed |-> TRUE]]
        /\ generation' = generation
        /\ rules' = rules

C29_EditFrame == [][EditStep => EditEffect]_vars

---------------------------------------------------------------------------
(* C28.  Pattern stamping frame: applyPattern writes pattern cell (y, x)   *)
(* to grid cell (floor(rows/2) - floor(patternRows/2) + y, floor(cols/2) - *)
(* floor(patternCols/2) + x) and resets that cell's age to 0 when the      *)
(* target is inside the grid; pattern cells whose target is outside are    *)
(* dropped without error, and every cell outside the footprint keeps its   *)
(* state and age.                                                          *)

\* The grid cell pattern cell (y, x) of p is written to, y and x from 0.
StampTarget(p, y, x, size) ==
    << (size.rows \div 2) - (Len(p) \div 2) + y,
       (size.cols \div 2) - (Len(p[1]) \div 2) + x >>

PatternCells(p) == (0 .. Len(p) - 1) \X (0 .. Len(p[1]) - 1)

C28_StampFrame ==
    lastEvent.op = "applyPattern" =>
        LET p == lastEvent.arg
            targets == {StampTarget(p, q[1], q[2], gridSize) : q \in PatternCells(p)}
        IN  /\ lastEvent.thrown = "none"
            /\ DOMAIN grid = RowIdx(gridSize)
            /\ \A y \in RowIdx(gridSize) : DOMAIN grid[y] = ColIdx(gridSize)
            /\ \A q \in PatternCells(p) :
                   LET t == StampTarget(p, q[1], q[2], gridSize)
                   IN  InGrid(t, gridSize) =>
                           /\ grid[t[1]][t[2]].state = p[q[1] + 1][q[2] + 1]
                           /\ grid[t[1]][t[2]].age = 0
            /\ \A c \in Cells(gridSize) \ targets :
                   /\ grid[c[1]][c[2]].state = pre[c[1]][c[2]].state
                   /\ grid[c[1]][c[2]].age = pre[c[1]][c[2]].age

\* A stamp with a pattern cell of state 1 whose target is outside the grid,
\* over a grid with an aged live cell outside the footprint.
C28_Witness ==
    /\ lastEvent.op = "applyPattern"
    /\ \E q \in PatternCells(lastEvent.arg) :
           /\ ~InGrid(StampTarget(lastEvent.arg, q[1], q[2], gridSize), gridSize)
           /\ lastEvent.arg[q[1] + 1][q[2] + 1] = 1
    /\ \E c \in Cells(gridSize) :
           /\ c \notin {StampTarget(lastEvent.arg, q[1], q[2], gridSize) :
                           q \in PatternCells(lastEvent.arg)}
           /\ pre[c[1]][c[2]].age > 0
           /\ grid[c[1]][c[2]] = pre[c[1]][c[2]]

---------------------------------------------------------------------------
(* C30.  The worker step and the main-thread fallback step are equivalent: *)
(* for every grid, rule configuration and trail configuration both give    *)
(* the same new grid (state, age and changed flag of every cell).          *)

C30_WorkerEqualsFallback ==
    \A k \in 1 .. Len(stepLog) :
        /\ stepLog[k].path = "worker" => stepLog[k].newGrid = FallbackStep(stepLog[k].req)
        /\ stepLog[k].path = "fallback" =>
               stepLog[k].newGrid = WorkerStep(stepLog[k].req).newGrid

\* Two worker steps: the first bore a cell with a number for its state,
\* the second let a live cell die and left a cell of state NaN unchanged.
C30_Witness ==
    /\ Len(stepLog) = 2
    /\ stepLog[1].path = "worker"
    /\ stepLog[2].path = "worker"
    /\ \E c \in Cells(gridSize) :
           OldCell(stepLog[1], c).state = 0 /\ Gt0(NewCell(stepLog[1], c).state)
    /\ \E c \in Cells(gridSize) : Dies(stepLog[2], c)
    /\ \E c \in Cells(gridSize) :
           OldCell(stepLog[2], c).state = NaN /\ NewCell(stepLog[2], c).state = Null

---------------------------------------------------------------------------
(* C31.  The generation counter counts real steps: at most one step        *)
(* request is outstanding at the worker at any time, and absent grid edits *)
(* the grid at generation k is the step of the grid at generation k - 1    *)
(* (no grid is stepped and counted twice), under any interleaving of timer *)
(* firings, worker responses and rule changes.                             *)

\* Requests posted and not yet applied.
Outstanding == Len(toWorker) + Len(fromWorker)

\* The log entry of the step that gave hist[i + 1].
StepOfHist(i) == stepLog[Len(stepLog) - (Len(hist) - 1) + i]

C31_CountsRealSteps ==
    /\ Outstanding <= 1
    /\ Len(hist) = generation + 1 =>
           \A i \in 1 .. Len(hist) - 1 :
               hist[i + 1] = WorkerStep([StepOfHist(i).req EXCEPT !.grid = hist[i]]).newGrid

---------------------------------------------------------------------------
(* C32.  Progress while running: if isRunning stays true and the worker    *)
(* answers every request, the generation counter keeps increasing: from    *)
(* every generation below the bound of the run a later one is reached.     *)

C32_Progress ==
    \A n \in 0 .. StepGen - 1 : (isRunning /\ generation = n) ~> (generation > n)

\* The run has reached its last generation through the worker, after a rule
\* change, with nothing outstanding.
C32_Witness ==
    /\ isRunning
    /\ hasWorker
    /\ generation = StepGen
    /\ ops = RunOps
    /\ Outstanding = 0
    /\ Len(stepLog) = StepGen

---------------------------------------------------------------------------
(* C33.  Trail decay is irreversible: with trailEffect on, a live cell     *)
(* that has taken the death branch of a step never takes the survive       *)
(* branch of a later step before a step has cleared its state to 0.        *)

\* The cell c keeps a positive state in the results of steps j .. k - 1.
TrailingThrough(j, k, c) == \A m \in j .. k - 1 : Gt0(NewCell(stepLog[m], c).state)

C33_TrailDecayIrreversible ==
    \A j \in 1 .. Len(stepLog) : \A k \in j + 1 .. Len(stepLog) :
        \A c \in Cells(gridSize) :
            (/\ stepLog[j].req.colorScheme.trailEffect
             /\ Dies(stepLog[j], c)
             /\ TrailingThrough(j, k, c))
                => ~Survives(stepLog[k], c)

---------------------------------------------------------------------------
(* C34.  A click draws a cell: while paused with rules.states = 1, a       *)
(* complete click gesture (mousedown, mouseup, click, in that order) on an *)
(* in-bounds dead cell leaves that cell alive with state 1 and age 0.      *)

\* A complete click gesture with the left button on the cell c, which was
\* dead when the button went down.
ClickedDead(c) ==
    /\ Len(gesture) = 3
    /\ ~gesture[1].pan
    /\ EditTarget(gesture[1].y, gesture[1].x, gridSize) = c
    /\ EditTarget(gesture[3].y, gesture[3].x, gridSize) = c
    /\ gesture[1].grid[c[1]][c[2]].state = 0

C34_ClickDraws ==
    \A c \in Cells(gridSize) :
        (~isRunning /\ rules.states = 1 /\ ClickedDead(c))
            => grid[c[1]][c[2]].state = 1 /\ grid[c[1]][c[2]].age = 0

---------------------------------------------------------------------------
(* C35.  The changed-only redraw shows the whole grid: in the default view *)
(* (zoom 1, pan (0, 0)), after every grid update the cells drawGrid paints *)
(* as live are exactly the cells with state > 0.                           *)
C35_RedrawShowsGrid ==
    Mounted => DrawGrid(grid, gridSize) = LiveCells(grid, gridSize)

---------------------------------------------------------------------------
(* C36.  Dead cells carry no age: in every grid the program reaches, every *)
(* cell with state 0 has age 0.                                            *)
C36_DeadCellsNoAge ==
    \A c \in GridCells : grid[c[1]][c[2]].state = 0 => grid[c[1]][c[2]].age = 0

\* A step has cleared a cell that had lived through an earlier step.
C36_Witness ==
    /\ lastEvent.op \in {"timer", "onmessage"}
    /\ \E c \in Cells(gridSize) :
           /\ Gt0(pre[c[1]][c[2]].state)
           /\ pre[c[1]][c[2]].age > 0
           /\ grid[c[1]][c[2]].state = 0
           /\ grid[c[1]][c[2]].age = 0

=============================================================================
